---- MODULE Spec2Model ----
(***************************************************************************)
(* Model of the resource record database of dns-tools (package rrdb): the  *)
(* label trie, its setters and getters, and the validators of package lib. *)
(*                                                                         *)
(* A Go string is a sequence of one-character strings, so that Split,      *)
(* Trim, Join and the hostname regular expression are computed, not        *)
(* assumed.  A Go pointer to a node is the index of the node in the arena  *)
(* db (index 1 is db.root, 0 is the nil pointer).                          *)
(***************************************************************************)
EXTENDS Integers, Sequences, FiniteSets, TLC

(* ---- bounds of the exploration ---------------------------------------- *)

\* number of store calls made in one behaviour
MaxCalls == 2

(* ---- characters and strings ------------------------------------------- *)

LowerChars == {"a", "b", "c", "d", "e", "f", "g", "h", "i", "j", "k", "l", "m",
               "n", "o", "p", "q", "r", "s", "t", "u", "v", "w", "x", "y", "z"}

UpperChars == {"A", "B", "C", "D", "E", "F", "G", "H", "I", "J", "K", "L", "M",
               "N", "O", "P", "Q", "R", "S", "T", "U", "V", "W", "X", "Y", "Z"}

DigitChars == {"0", "1", "2", "3", "4", "5", "6", "7", "8", "9"}

AlnumChars == LowerChars \cup UpperChars \cup DigitChars

\* strings.Split(s, sep) for a one-character separator: the segments between
\* the separators, empty segments included; Split("", sep) is <<"">>
RECURSIVE SplitFrom(_, _, _, _)
SplitFrom(s, sep, i, cur) ==
    IF i > Len(s) THEN <<cur>>
    ELSE IF s[i] = sep THEN <<cur>> \o SplitFrom(s, sep, i + 1, <<>>)
    ELSE SplitFrom(s, sep, i + 1, Append(cur, s[i]))

Split(s, sep) == SplitFrom(s, sep, 1, <<>>)

\* strings.Trim(s, cutset) for a one-character cutset: all leading and all
\* trailing occurrences removed
RECURSIVE TrimLeft(_, _)
TrimLeft(s, c) ==
    IF Len(s) > 0 /\ s[1] = c THEN TrimLeft(Tail(s), c) ELSE s

RECURSIVE TrimRight(_, _)
TrimRight(s, c) ==
    IF Len(s) > 0 /\ s[Len(s)] = c THEN TrimRight(SubSeq(s, 1, Len(s) - 1), c)
    ELSE s

Trim(s, c) == TrimRight(TrimLeft(s, c), c)

\* strings.Join(ls, sep)
RECURSIVE Join(_, _)
Join(ls, sep) ==
    IF Len(ls) = 0 THEN <<>>
    ELSE IF Len(ls) = 1 THEN ls[1]
    ELSE ls[1] \o sep \o Join(Tail(ls), sep)

(* ---- package lib: validators ------------------------------------------ *)

\* one label of regexHostname: [first]|[first][a-zA-Z0-9\-]*[a-zA-Z0-9],
\* where first is [a-zA-Z0-9_] for the leading labels and [A-Za-z0-9] for
\* the last one
LabelMatches(l, underscore) ==
    /\ Len(l) >= 1
    /\ l[1] \in AlnumChars \/ (underscore /\ l[1] = "_")
    /\ Len(l) >= 2 => /\ l[Len(l)] \in AlnumChars
                      /\ \A i \in 2..(Len(l) - 1) : l[i] \in AlnumChars \/ l[i] = "-"

\* regexHostname.MatchString: (label\.)*lastlabel\.
regexHostname(s) ==
    /\ Len(s) >= 1
    /\ s[Len(s)] = "."
    /\ LET ls == Split(SubSeq(s, 1, Len(s) - 1), ".")
       IN  /\ \A i \in 1..(Len(ls) - 1) : LabelMatches(ls[i], TRUE)
           /\ LabelMatches(ls[Len(ls)], FALSE)

IsValidFQDN(fqdn) ==
    IF ~regexHostname(fqdn) THEN "invalid FQDN" ELSE "nil"

MaxTTL == 2147483647

\* A Go int has 64 bits.  An integer above 2^31 - 1 is beyond the integers
\* the model checker computes with, so IsValidTTL is computed on an int
\* written in base LimbBase: the int is hi * LimbBase + lo, 0 <= lo < LimbBase.
LimbBase == 65536

Limbs(v) == [hi |-> v \div LimbBase, lo |-> v % LimbBase]

\* x < y for two ints in limbs
LimbsLess(x, y) == x.hi < y.hi \/ (x.hi = y.hi /\ x.lo < y.lo)

\* variant of IsValidTTL without the upper limit
IsValidTTLWide_NoUpperLimit(t) ==
    IF LimbsLess(t, Limbs(0)) THEN "invalid TTL" ELSE "nil"

\* IsValidTTL on an int in limbs: ttl < 0 || ttl > 2147483647
IsValidTTLWide(t) ==
    IF LimbsLess(t, Limbs(0)) \/ LimbsLess(Limbs(MaxTTL), t) THEN "invalid TTL" ELSE "nil"

\* IsValidTTL on an int the model checker computes with
IsValidTTL(ttl) == IsValidTTLWide(Limbs(ttl))

\* net.ParseIP is library code: the literals of the test tables, by the
\* address family ParseIP gives them
IPv4Literals == {"192.0.2.1", "192.0.2.155"}

IPv6Literals == {"2001:db8::1", "2001:db8::cafe"}

IsValidIPv4(address) ==
    IF address \notin (IPv4Literals \cup IPv6Literals) THEN "invalid IPv4 address"
    ELSE IF address \notin IPv4Literals THEN "invalid IPv4 address"
    ELSE "nil"

IsValidIPv6(address) ==
    IF address \notin (IPv4Literals \cup IPv6Literals) THEN "invalid IPv6 address"
    ELSE IF address \notin IPv6Literals THEN "invalid IPv6 address"
    ELSE "nil"

(* ---- package rrdb: the trie ------------------------------------------- *)

NilNode == 0

RootNode == 1

\* variant of NewNode that leaves the parent back-reference nil
NewNode_NoParent(fqdn, parent) ==
    [fqdn |-> fqdn, children |-> <<>>, parent |-> NilNode,
     nsRDatas |-> <<>>, nsTTL |-> 0,
     mxRDatas |-> <<>>, mxTTL |-> 0,
     txtRDatas |-> <<>>, txtTTL |-> 0, txtSPF1 |-> FALSE, txtDKIM1 |-> FALSE,
     cnameRdata |-> <<>>, cnameTTL |-> 0,
     aRDatas |-> <<>>, aTTL |-> 0,
     aaaaRDatas |-> <<>>, aaaaTTL |-> 0]

\* a freshly allocated node: nil slices and the empty string are <<>>
NewNode(fqdn, parent) ==
    [fqdn |-> fqdn, children |-> <<>>, parent |-> parent,
     nsRDatas |-> <<>>, nsTTL |-> 0,
     mxRDatas |-> <<>>, mxTTL |-> 0,
     txtRDatas |-> <<>>, txtTTL |-> 0, txtSPF1 |-> FALSE, txtDKIM1 |-> FALSE,
     cnameRdata |-> <<>>, cnameTTL |-> 0,
     aRDatas |-> <<>>, aTTL |-> 0,
     aaaaRDatas |-> <<>>, aaaaTTL |-> 0]

\* New(): a database that holds the root node only
New == <<NewNode(<<>>, NilNode)>>

hasNS(nd) == Len(nd.nsRDatas) # 0

hasMX(nd) == Len(nd.mxRDatas) # 0

hasTXT(nd) == Len(nd.txtRDatas) # 0

hasCNAME(nd) == Len(nd.cnameRdata) # 0

hasA(nd) == Len(nd.aRDatas) # 0

hasAAAA(nd) == Len(nd.aaaaRDatas) # 0

hasRecords(nd) ==
    hasNS(nd) \/ hasMX(nd) \/ hasTXT(nd) \/ hasCNAME(nd) \/ hasA(nd) \/ hasAAAA(nd)

hasChildren(nd) == DOMAIN nd.children # {}

\* nd.children[label] = &node{...}: the map gains (or overwrites) one key
MapPut(m, k, v) == [x \in (DOMAIN m) \cup {k} |-> IF x = k THEN v ELSE m[x]]

\* variant of nodeWalk that descends through a node that holds NS
RECURSIVE nodeWalk_ThroughNS(_, _, _, _, _)
nodeWalk_ThroughNS(d, id, ls, idx, create) ==
    IF idx < 1 THEN [db |-> d, nd |-> id, err |-> "nil"]
    ELSE LET label == ls[idx]
         IN  IF label \notin DOMAIN d[id].children
             THEN IF create
                  THEN LET new == Len(d) + 1
                           child == NewNode(Join(SubSeq(ls, idx, Len(ls)), <<".">>) \o <<".">>, id)
                           d1 == Append([d EXCEPT ![id].children = MapPut(@, label, new)], child)
                       IN  nodeWalk_ThroughNS(d1, new, ls, idx - 1, create)
                  ELSE [db |-> d, nd |-> NilNode, err |-> "FQDN not found"]
             ELSE nodeWalk_ThroughNS(d, d[id].children[label], ls, idx - 1, create)

\* variant of nodeWalk that stops at a node that holds any record
RECURSIVE nodeWalk_PayloadCuts(_, _, _, _, _)
nodeWalk_PayloadCuts(d, id, ls, idx, create) ==
    IF idx < 1 THEN [db |-> d, nd |-> id, err |-> "nil"]
    ELSE IF hasRecords(d[id]) THEN [db |-> d, nd |-> NilNode, err |-> "FQDN outside authority"]
    ELSE LET label == ls[idx]
         IN  IF label \notin DOMAIN d[id].children
             THEN IF create
                  THEN LET new == Len(d) + 1
                           child == NewNode(Join(SubSeq(ls, idx, Len(ls)), <<".">>) \o <<".">>, id)
                           d1 == Append([d EXCEPT ![id].children = MapPut(@, label, new)], child)
                       IN  nodeWalk_PayloadCuts(d1, new, ls, idx - 1, create)
                  ELSE [db |-> d, nd |-> NilNode, err |-> "FQDN not found"]
             ELSE nodeWalk_PayloadCuts(d, d[id].children[label], ls, idx - 1, create)

\* (nd *node).node(ls, idx, create): ls[idx] is the label to descend into;
\* idx counts from Len(ls) down to 1 (Go: len(ls)-1 down to 0).  The result
\* is the database as the call leaves it, the node found and the error.
RECURSIVE nodeWalk(_, _, _, _, _)
nodeWalk(d, id, ls, idx, create) ==
    IF idx < 1 THEN [db |-> d, nd |-> id, err |-> "nil"]
    ELSE IF hasNS(d[id]) THEN [db |-> d, nd |-> NilNode, err |-> "FQDN outside authority"]
    ELSE LET label == ls[idx]
         IN  IF label \notin DOMAIN d[id].children
             THEN IF create
                  THEN LET new == Len(d) + 1
                           child == NewNode(Join(SubSeq(ls, idx, Len(ls)), <<".">>) \o <<".">>, id)
                           d1 == Append([d EXCEPT ![id].children = MapPut(@, label, new)], child)
                       IN  nodeWalk(d1, new, ls, idx - 1, create)
                  ELSE [db |-> d, nd |-> NilNode, err |-> "FQDN not found"]
             ELSE nodeWalk(d, d[id].children[label], ls, idx - 1, create)

\* variant of node that creates the path whatever the caller asks for
node_AlwaysCreate(d, fqdn, create) ==
    LET e == IsValidFQDN(fqdn)
        ls == Split(Trim(fqdn, "."), ".")
    IN  IF e # "nil" THEN [db |-> d, nd |-> NilNode, err |-> e]
        ELSE nodeWalk(d, RootNode, ls, Len(ls), TRUE)

\* (db *RRDB).node(fqdn, create)
node(d, fqdn, create) ==
    LET e == IsValidFQDN(fqdn)
        ls == Split(Trim(fqdn, "."), ".")
    IN  IF e # "nil" THEN [db |-> d, nd |-> NilNode, err |-> e]
        ELSE nodeWalk(d, RootNode, ls, Len(ls), create)

(* ---- setters: the result is [db, err], db as the call leaves it -------- *)

\* the loop "validation and duplicate detection" of SetNS, SetA and SetAAAA:
\* the error of the first entry that is invalid or was seen before; valid[i]
\* is what the type's validator returns for rdatas[i]
checkRdatas(rdatas, valid) ==
    LET bad(i) == \/ valid[i] # "nil"
                  \/ \E j \in 1..(i - 1) : rdatas[j] = rdatas[i]
    IN  IF \A i \in 1..Len(rdatas) : ~bad(i) THEN "nil"
        ELSE LET i == CHOOSE k \in 1..Len(rdatas) : bad(k) /\ \A j \in 1..(k - 1) : ~bad(j)
             IN  IF valid[i] # "nil" THEN "rdata: " \o valid[i]
                 ELSE "rdata: duplicate entry"

\* variant of SetNS that delegates a node whatever children it has
SetNS_WithChildren(d, fqdn, ttl, rdatas) ==
    LET r == node(d, fqdn, TRUE)
        nd == r.db[r.nd]
        valid == checkRdatas(rdatas, [i \in 1..Len(rdatas) |-> IsValidFQDN(rdatas[i])])
    IN  IF r.err # "nil" THEN [db |-> r.db, err |-> r.err]
        ELSE IF IsValidTTL(ttl) # "nil" THEN [db |-> r.db, err |-> IsValidTTL(ttl)]
        ELSE IF Len(rdatas) = 0 THEN [db |-> r.db, err |-> "rdatas: empty"]
        ELSE IF hasNS(nd) THEN [db |-> r.db, err |-> "NS record already set"]
        ELSE IF valid # "nil" THEN [db |-> r.db, err |-> valid]
        ELSE IF hasRecords(nd) THEN [db |-> r.db, err |-> "conflicting records"]
        ELSE [db |-> [r.db EXCEPT ![r.nd].nsTTL = ttl, ![r.nd].nsRDatas = rdatas],
              err |-> "nil"]

SetNS(d, fqdn, ttl, rdatas) ==
    LET r == node(d, fqdn, TRUE)
        nd == r.db[r.nd]
        valid == checkRdatas(rdatas, [i \in 1..Len(rdatas) |-> IsValidFQDN(rdatas[i])])
    IN  IF r.err # "nil" THEN [db |-> r.db, err |-> r.err]
        ELSE IF IsValidTTL(ttl) # "nil" THEN [db |-> r.db, err |-> IsValidTTL(ttl)]
        ELSE IF Len(rdatas) = 0 THEN [db |-> r.db, err |-> "rdatas: empty"]
        ELSE IF hasNS(nd) THEN [db |-> r.db, err |-> "NS record already set"]
        ELSE IF valid # "nil" THEN [db |-> r.db, err |-> valid]
        ELSE IF hasRecords(nd) THEN [db |-> r.db, err |-> "conflicting records"]
        ELSE IF hasChildren(nd)
             THEN [db |-> r.db, err |-> "cannot delegate FQDN with children"]
        ELSE [db |-> [r.db EXCEPT ![r.nd].nsTTL = ttl, ![r.nd].nsRDatas = rdatas],
              err |-> "nil"]

\* strings.SplitN(s, " ", 2): cut at the first space, if there is one
SplitN2(s) ==
    IF \E i \in 1..Len(s) : s[i] = " "
    THEN LET i == CHOOSE k \in 1..Len(s) : s[k] = " " /\ \A j \in 1..(k - 1) : s[j] # " "
         IN  <<SubSeq(s, 1, i - 1), SubSeq(s, i + 1, Len(s))>>
    ELSE <<s>>

DigitSeq == <<"0", "1", "2", "3", "4", "5", "6", "7", "8", "9">>

DigitVal(c) == (CHOOSE i \in 1..10 : DigitSeq[i] = c) - 1

MaxPreference == 65535

\* the value of a digit string, exact up to MaxPreference and MaxPreference + 1
\* for every larger one: SetMX only compares it with 0 and MaxPreference
RECURSIVE DigitsValue(_, _)
DigitsValue(s, acc) ==
    IF Len(s) = 0 THEN acc
    ELSE LET v == acc * 10 + DigitVal(s[1])
         IN  DigitsValue(Tail(s), IF v > MaxPreference THEN MaxPreference + 1 ELSE v)

\* 2^63 - 1 and 2^63, digit by digit
MaxInt64Digits == <<"9", "2", "2", "3", "3", "7", "2", "0", "3", "6", "8", "5", "4",
                    "7", "7", "5", "8", "0", "7">>

MinInt64Digits == <<"9", "2", "2", "3", "3", "7", "2", "0", "3", "6", "8", "5", "4",
                    "7", "7", "5", "8", "0", "8">>

\* x > y for two digit strings of the same length
DigitsGreater(x, y) ==
    \E i \in 1..Len(x) : /\ DigitVal(x[i]) > DigitVal(y[i])
                         /\ \A j \in 1..(i - 1) : x[j] = y[j]

\* strconv.ParseInt(s, 10, 64): an optional sign and decimal digits that fit
\* into 64 bits; ok is FALSE for a syntax or range error
ParseInt(s) ==
    LET neg == Len(s) > 0 /\ s[1] = "-"
        digits == IF Len(s) > 0 /\ s[1] \in {"-", "+"} THEN Tail(s) ELSE s
        sig == TrimLeft(digits, "0")
        limit == IF neg THEN MinInt64Digits ELSE MaxInt64Digits
    IN  IF Len(digits) = 0 \/ \E i \in 1..Len(digits) : digits[i] \notin DigitChars
        THEN [ok |-> FALSE, val |-> 0]
        ELSE IF Len(sig) > Len(limit) \/ (Len(sig) = Len(limit) /\ DigitsGreater(sig, limit))
        THEN [ok |-> FALSE, val |-> 0]
        ELSE [ok |-> TRUE, val |-> IF neg THEN 0 - DigitsValue(digits, 0)
                                          ELSE DigitsValue(digits, 0)]

\* the null MX of RFC 7505, "0 ."
NullMX == <<"0", " ", ".">>

\* variant of checkMXs that remembers the whole entry, not its hostname
RECURSIVE checkMXs_SeenEntry(_, _)
checkMXs_SeenEntry(rdatas, i) ==
    IF i > Len(rdatas) THEN "nil"
    ELSE LET mxLine == SplitN2(rdatas[i])
             preference == ParseInt(mxLine[1])
         IN  IF ~preference.ok THEN "rdata: invalid preference"
             ELSE IF Len(mxLine) < 2 THEN "panic: index out of range"
             ELSE IF preference.val < 0 \/ preference.val > MaxPreference
                  THEN "rdata: invalid preference"
             ELSE IF IsValidFQDN(mxLine[2]) # "nil" THEN "rdata: " \o IsValidFQDN(mxLine[2])
             ELSE IF \E j \in 1..(i - 1) : rdatas[j] = rdatas[i]
                  THEN "rdata: duplicate entry"
             ELSE checkMXs_SeenEntry(rdatas, i + 1)

\* the validation loop of SetMX; mxLine[1] of an entry without a space is an
\* index out of range, which ends the program
RECURSIVE checkMXs(_, _)
checkMXs(rdatas, i) ==
    IF i > Len(rdatas) THEN "nil"
    ELSE LET mxLine == SplitN2(rdatas[i])
             preference == ParseInt(mxLine[1])
         IN  IF ~preference.ok THEN "rdata: invalid preference"
             ELSE IF Len(mxLine) < 2 THEN "panic: index out of range"
             ELSE IF preference.val < 0 \/ preference.val > MaxPreference
                  THEN "rdata: invalid preference"
             ELSE IF IsValidFQDN(mxLine[2]) # "nil" THEN "rdata: " \o IsValidFQDN(mxLine[2])
             ELSE IF \E j \in 1..(i - 1) : SplitN2(rdatas[j])[2] = mxLine[2]
                  THEN "rdata: duplicate entry"
             ELSE checkMXs(rdatas, i + 1)

\* variant of SetMX that replaces an MX record that is already set
SetMX_Overwrite(d, fqdn, ttl, rdatas) ==
    LET r == node(d, fqdn, TRUE)
        nd == r.db[r.nd]
        valid == IF Len(rdatas) = 1 /\ rdatas[1] = NullMX THEN "nil"
                 ELSE checkMXs(rdatas, 1)
    IN  IF r.err # "nil" THEN [db |-> r.db, err |-> r.err]
        ELSE IF IsValidTTL(ttl) # "nil" THEN [db |-> r.db, err |-> IsValidTTL(ttl)]
        ELSE IF Len(rdatas) = 0 THEN [db |-> r.db, err |-> "rdatas: empty"]
        ELSE IF valid # "nil" THEN [db |-> r.db, err |-> valid]
        ELSE IF hasNS(nd) \/ hasCNAME(nd) THEN [db |-> r.db, err |-> "conflicting record"]
        ELSE [db |-> [r.db EXCEPT ![r.nd].mxTTL = ttl, ![r.nd].mxRDatas = rdatas],
              err |-> "nil"]

SetMX(d, fqdn, ttl, rdatas) ==
    LET r == node(d, fqdn, TRUE)
        nd == r.db[r.nd]
        valid == IF Len(rdatas) = 1 /\ rdatas[1] = NullMX THEN "nil"
                 ELSE checkMXs(rdatas, 1)
    IN  IF r.err # "nil" THEN [db |-> r.db, err |-> r.err]
        ELSE IF IsValidTTL(ttl) # "nil" THEN [db |-> r.db, err |-> IsValidTTL(ttl)]
        ELSE IF Len(rdatas) = 0 THEN [db |-> r.db, err |-> "rdatas: empty"]
        ELSE IF hasMX(nd) THEN [db |-> r.db, err |-> "MX record already set"]
        ELSE IF valid # "nil" THEN [db |-> r.db, err |-> valid]
        ELSE IF hasNS(nd) \/ hasCNAME(nd) THEN [db |-> r.db, err |-> "conflicting record"]
        ELSE [db |-> [r.db EXCEPT ![r.nd].mxTTL = ttl, ![r.nd].mxRDatas = rdatas],
              err |-> "nil"]

LowerSeq == <<"a", "b", "c", "d", "e", "f", "g", "h", "i", "j", "k", "l", "m",
              "n", "o", "p", "q", "r", "s", "t", "u", "v", "w", "x", "y", "z">>

UpperSeq == <<"A", "B", "C", "D", "E", "F", "G", "H", "I", "J", "K", "L", "M",
              "N", "O", "P", "Q", "R", "S", "T", "U", "V", "W", "X", "Y", "Z">>

\* strings.ToLower on ASCII text
ToLower(s) ==
    [i \in 1..Len(s) |-> IF s[i] \in UpperChars
                         THEN LowerSeq[CHOOSE k \in 1..26 : UpperSeq[k] = s[i]]
                         ELSE s[i]]

HasPrefix(s, p) == Len(s) >= Len(p) /\ SubSeq(s, 1, Len(p)) = p

MaxTXTLen == 255

\* variant of isSPF1 that compares the prefix as it is written
isSPF1_CaseSensitive(rdata) ==
    \/ HasPrefix(rdata, <<"v", "=", "s", "p", "f", "1", " ">>)
    \/ HasPrefix(rdata, <<"v", "=", "s", "p", "f", "1", ";">>)

isSPF1(rdata) ==
    \/ HasPrefix(ToLower(rdata), <<"v", "=", "s", "p", "f", "1", " ">>)
    \/ HasPrefix(ToLower(rdata), <<"v", "=", "s", "p", "f", "1", ";">>)

isDKIM1(rdata) ==
    \/ HasPrefix(ToLower(rdata), <<"v", "=", "d", "k", "i", "m", "1", " ">>)
    \/ HasPrefix(ToLower(rdata), <<"v", "=", "d", "k", "i", "m", "1", ";">>)

\* variant of AddTXT without the duplicate detection
AddTXT_KeepsDuplicates(d, fqdn, ttl, rdata) ==
    LET r == node(d, fqdn, TRUE)
        nd == r.db[r.nd]
        d1 == IF isSPF1(rdata) THEN [r.db EXCEPT ![r.nd].txtSPF1 = TRUE] ELSE r.db
        d2 == IF isDKIM1(rdata) THEN [d1 EXCEPT ![r.nd].txtDKIM1 = TRUE] ELSE d1
    IN  IF r.err # "nil" THEN [db |-> r.db, err |-> r.err]
        ELSE IF IsValidTTL(ttl) # "nil" THEN [db |-> r.db, err |-> IsValidTTL(ttl)]
        ELSE IF nd.txtTTL # 0 /\ ttl # nd.txtTTL THEN [db |-> r.db, err |-> "TTL already set"]
        ELSE IF Len(rdata) = 0 THEN [db |-> r.db, err |-> "rdata: empty"]
        ELSE IF Len(rdata) > MaxTXTLen THEN [db |-> r.db, err |-> "rdata: too large"]
        ELSE IF hasNS(nd) \/ hasCNAME(nd) THEN [db |-> r.db, err |-> "conflicting records"]
        ELSE IF isSPF1(rdata) /\ nd.txtSPF1 THEN [db |-> r.db, err |-> "rdata: SPF already set"]
        ELSE IF isDKIM1(rdata) /\ d1[r.nd].txtDKIM1
             THEN [db |-> d1, err |-> "rdata: DKIM already set"]
        ELSE [db |-> [d2 EXCEPT ![r.nd].txtTTL = ttl,
                                ![r.nd].txtRDatas = Append(@, rdata)],
              err |-> "nil"]

\* variant of AddTXT in which a zero TTL passes the TTL check and keeps the
\* recorded TTL
AddTXT_ZeroInherits(d, fqdn, ttl, rdata) ==
    LET r == node(d, fqdn, TRUE)
        nd == r.db[r.nd]
        d1 == IF isSPF1(rdata) THEN [r.db EXCEPT ![r.nd].txtSPF1 = TRUE] ELSE r.db
        d2 == IF isDKIM1(rdata) THEN [d1 EXCEPT ![r.nd].txtDKIM1 = TRUE] ELSE d1
    IN  IF r.err # "nil" THEN [db |-> r.db, err |-> r.err]
        ELSE IF IsValidTTL(ttl) # "nil" THEN [db |-> r.db, err |-> IsValidTTL(ttl)]
        ELSE IF nd.txtTTL # 0 /\ ttl # 0 /\ ttl # nd.txtTTL
             THEN [db |-> r.db, err |-> "TTL already set"]
        ELSE IF Len(rdata) = 0 THEN [db |-> r.db, err |-> "rdata: empty"]
        ELSE IF Len(rdata) > MaxTXTLen THEN [db |-> r.db, err |-> "rdata: too large"]
        ELSE IF \E i \in 1..Len(nd.txtRDatas) : nd.txtRDatas[i] = rdata
             THEN [db |-> r.db, err |-> "rdata: duplicate entry"]
        ELSE IF hasNS(nd) \/ hasCNAME(nd) THEN [db |-> r.db, err |-> "conflicting records"]
        ELSE IF isSPF1(rdata) /\ nd.txtSPF1 THEN [db |-> r.db, err |-> "rdata: SPF already set"]
        ELSE IF isDKIM1(rdata) /\ d1[r.nd].txtDKIM1
             THEN [db |-> d1, err |-> "rdata: DKIM already set"]
        ELSE [db |-> [d2 EXCEPT ![r.nd].txtTTL = IF ttl = 0 THEN @ ELSE ttl,
                                ![r.nd].txtRDatas = Append(@, rdata)],
              err |-> "nil"]

\* variant of AddTXT without the check of the recorded TTL
AddTXT_AnyTTL(d, fqdn, ttl, rdata) ==
    LET r == node(d, fqdn, TRUE)
        nd == r.db[r.nd]
        d1 == IF isSPF1(rdata) THEN [r.db EXCEPT ![r.nd].txtSPF1 = TRUE] ELSE r.db
        d2 == IF isDKIM1(rdata) THEN [d1 EXCEPT ![r.nd].txtDKIM1 = TRUE] ELSE d1
    IN  IF r.err # "nil" THEN [db |-> r.db, err |-> r.err]
        ELSE IF IsValidTTL(ttl) # "nil" THEN [db |-> r.db, err |-> IsValidTTL(ttl)]
        ELSE IF Len(rdata) = 0 THEN [db |-> r.db, err |-> "rdata: empty"]
        ELSE IF Len(rdata) > MaxTXTLen THEN [db |-> r.db, err |-> "rdata: too large"]
        ELSE IF \E i \in 1..Len(nd.txtRDatas) : nd.txtRDatas[i] = rdata
             THEN [db |-> r.db, err |-> "rdata: duplicate entry"]
        ELSE IF hasNS(nd) \/ hasCNAME(nd) THEN [db |-> r.db, err |-> "conflicting records"]
        ELSE IF isSPF1(rdata) /\ nd.txtSPF1 THEN [db |-> r.db, err |-> "rdata: SPF already set"]
        ELSE IF isDKIM1(rdata) /\ d1[r.nd].txtDKIM1
             THEN [db |-> d1, err |-> "rdata: DKIM already set"]
        ELSE [db |-> [d2 EXCEPT ![r.nd].txtTTL = ttl,
                                ![r.nd].txtRDatas = Append(@, rdata)],
              err |-> "nil"]

\* variant of AddTXT that records the TTL as soon as it has passed the TTL checks
AddTXT_TTLFirst(d, fqdn, ttl, rdata) ==
    LET r == node(d, fqdn, TRUE)
        nd == r.db[r.nd]
        d0 == [r.db EXCEPT ![r.nd].txtTTL = ttl]
        d1 == IF isSPF1(rdata) THEN [d0 EXCEPT ![r.nd].txtSPF1 = TRUE] ELSE d0
        d2 == IF isDKIM1(rdata) THEN [d1 EXCEPT ![r.nd].txtDKIM1 = TRUE] ELSE d1
    IN  IF r.err # "nil" THEN [db |-> r.db, err |-> r.err]
        ELSE IF IsValidTTL(ttl) # "nil" THEN [db |-> r.db, err |-> IsValidTTL(ttl)]
        ELSE IF nd.txtTTL # 0 /\ ttl # nd.txtTTL THEN [db |-> r.db, err |-> "TTL already set"]
        ELSE IF Len(rdata) = 0 THEN [db |-> d0, err |-> "rdata: empty"]
        ELSE IF Len(rdata) > MaxTXTLen THEN [db |-> d0, err |-> "rdata: too large"]
        ELSE IF \E i \in 1..Len(nd.txtRDatas) : nd.txtRDatas[i] = rdata
             THEN [db |-> d0, err |-> "rdata: duplicate entry"]
        ELSE IF hasNS(nd) \/ hasCNAME(nd) THEN [db |-> d0, err |-> "conflicting records"]
        ELSE IF isSPF1(rdata) /\ nd.txtSPF1 THEN [db |-> d0, err |-> "rdata: SPF already set"]
        ELSE IF isDKIM1(rdata) /\ d1[r.nd].txtDKIM1
             THEN [db |-> d1, err |-> "rdata: DKIM already set"]
        ELSE [db |-> [d2 EXCEPT ![r.nd].txtRDatas = Append(@, rdata)], err |-> "nil"]

AddTXT(d, fqdn, ttl, rdata) ==
    LET r == node(d, fqdn, TRUE)
        nd == r.db[r.nd]
        \* nd.txtSPF1 = true is assigned before the DKIM check runs
        d1 == IF isSPF1(rdata) THEN [r.db EXCEPT ![r.nd].txtSPF1 = TRUE] ELSE r.db
        d2 == IF isDKIM1(rdata) THEN [d1 EXCEPT ![r.nd].txtDKIM1 = TRUE] ELSE d1
    IN  IF r.err # "nil" THEN [db |-> r.db, err |-> r.err]
        ELSE IF IsValidTTL(ttl) # "nil" THEN [db |-> r.db, err |-> IsValidTTL(ttl)]
        ELSE IF nd.txtTTL # 0 /\ ttl # nd.txtTTL THEN [db |-> r.db, err |-> "TTL already set"]
        ELSE IF Len(rdata) = 0 THEN [db |-> r.db, err |-> "rdata: empty"]
        ELSE IF Len(rdata) > MaxTXTLen THEN [db |-> r.db, err |-> "rdata: too large"]
        ELSE IF \E i \in 1..Len(nd.txtRDatas) : nd.txtRDatas[i] = rdata
             THEN [db |-> r.db, err |-> "rdata: duplicate entry"]
        ELSE IF hasNS(nd) \/ hasCNAME(nd) THEN [db |-> r.db, err |-> "conflicting records"]
        ELSE IF isSPF1(rdata) /\ nd.txtSPF1 THEN [db |-> r.db, err |-> "rdata: SPF already set"]
        ELSE IF isDKIM1(rdata) /\ d1[r.nd].txtDKIM1
             THEN [db |-> d1, err |-> "rdata: DKIM already set"]
        ELSE [db |-> [d2 EXCEPT ![r.nd].txtTTL = ttl,
                                ![r.nd].txtRDatas = Append(@, rdata)],
              err |-> "nil"]

\* variant of SetCNAME whose logic check looks for NS only
SetCNAME_NSCheckOnly(d, fqdn, ttl, rdata) ==
    LET r == node(d, fqdn, TRUE)
        nd == r.db[r.nd]
    IN  IF r.err # "nil" THEN [db |-> r.db, err |-> r.err]
        ELSE IF IsValidTTL(ttl) # "nil" THEN [db |-> r.db, err |-> IsValidTTL(ttl)]
        ELSE IF hasCNAME(nd) THEN [db |-> r.db, err |-> "CNAME record already set"]
        ELSE IF IsValidFQDN(rdata) # "nil"
             THEN [db |-> r.db, err |-> "rdata: " \o IsValidFQDN(rdata)]
        ELSE IF hasNS(nd) THEN [db |-> r.db, err |-> "conflicting records"]
        ELSE [db |-> [r.db EXCEPT ![r.nd].cnameTTL = ttl, ![r.nd].cnameRdata = rdata],
              err |-> "nil"]

SetCNAME(d, fqdn, ttl, rdata) ==
    LET r == node(d, fqdn, TRUE)
        nd == r.db[r.nd]
    IN  IF r.err # "nil" THEN [db |-> r.db, err |-> r.err]
        ELSE IF IsValidTTL(ttl) # "nil" THEN [db |-> r.db, err |-> IsValidTTL(ttl)]
        ELSE IF hasCNAME(nd) THEN [db |-> r.db, err |-> "CNAME record already set"]
        ELSE IF IsValidFQDN(rdata) # "nil"
             THEN [db |-> r.db, err |-> "rdata: " \o IsValidFQDN(rdata)]
        ELSE IF hasRecords(nd) THEN [db |-> r.db, err |-> "conflicting records"]
        ELSE [db |-> [r.db EXCEPT ![r.nd].cnameTTL = ttl, ![r.nd].cnameRdata = rdata],
              err |-> "nil"]

\* variant of SetA that replaces an A record that is already set
SetA_Overwrite(d, fqdn, ttl, rdatas) ==
    LET r == node(d, fqdn, TRUE)
        nd == r.db[r.nd]
        valid == checkRdatas(rdatas, [i \in 1..Len(rdatas) |-> IsValidIPv4(rdatas[i])])
    IN  IF r.err # "nil" THEN [db |-> r.db, err |-> r.err]
        ELSE IF IsValidTTL(ttl) # "nil" THEN [db |-> r.db, err |-> IsValidTTL(ttl)]
        ELSE IF Len(rdatas) = 0 THEN [db |-> r.db, err |-> "rdatas: empty"]
        ELSE IF valid # "nil" THEN [db |-> r.db, err |-> valid]
        ELSE IF hasNS(nd) \/ hasCNAME(nd) THEN [db |-> r.db, err |-> "conflicting records"]
        ELSE [db |-> [r.db EXCEPT ![r.nd].aTTL = ttl, ![r.nd].aRDatas = rdatas],
              err |-> "nil"]

SetA(d, fqdn, ttl, rdatas) ==
    LET r == node(d, fqdn, TRUE)
        nd == r.db[r.nd]
        valid == checkRdatas(rdatas, [i \in 1..Len(rdatas) |-> IsValidIPv4(rdatas[i])])
    IN  IF r.err # "nil" THEN [db |-> r.db, err |-> r.err]
        ELSE IF IsValidTTL(ttl) # "nil" THEN [db |-> r.db, err |-> IsValidTTL(ttl)]
        ELSE IF Len(rdatas) = 0 THEN [db |-> r.db, err |-> "rdatas: empty"]
        ELSE IF hasA(nd) THEN [db |-> r.db, err |-> "A record already set"]
        ELSE IF valid # "nil" THEN [db |-> r.db, err |-> valid]
        ELSE IF hasNS(nd) \/ hasCNAME(nd) THEN [db |-> r.db, err |-> "conflicting records"]
        ELSE [db |-> [r.db EXCEPT ![r.nd].aTTL = ttl, ![r.nd].aRDatas = rdatas],
              err |-> "nil"]

\* variant of SetAAAA that writes the TTL of the A record
SetAAAA_WritesATTL(d, fqdn, ttl, rdatas) ==
    LET r == node(d, fqdn, TRUE)
        nd == r.db[r.nd]
        valid == checkRdatas(rdatas, [i \in 1..Len(rdatas) |-> IsValidIPv6(rdatas[i])])
    IN  IF r.err # "nil" THEN [db |-> r.db, err |-> r.err]
        ELSE IF IsValidTTL(ttl) # "nil" THEN [db |-> r.db, err |-> IsValidTTL(ttl)]
        ELSE IF Len(rdatas) = 0 THEN [db |-> r.db, err |-> "rdatas: empty"]
        ELSE IF hasAAAA(nd) THEN [db |-> r.db, err |-> "AAAA record already set"]
        ELSE IF valid # "nil" THEN [db |-> r.db, err |-> valid]
        ELSE IF hasNS(nd) \/ hasCNAME(nd) THEN [db |-> r.db, err |-> "conflicting records"]
        ELSE [db |-> [r.db EXCEPT ![r.nd].aTTL = ttl, ![r.nd].aaaaRDatas = rdatas],
              err |-> "nil"]

SetAAAA(d, fqdn, ttl, rdatas) ==
    LET r == node(d, fqdn, TRUE)
        nd == r.db[r.nd]
        valid == checkRdatas(rdatas, [i \in 1..Len(rdatas) |-> IsValidIPv6(rdatas[i])])
    IN  IF r.err # "nil" THEN [db |-> r.db, err |-> r.err]
        ELSE IF IsValidTTL(ttl) # "nil" THEN [db |-> r.db, err |-> IsValidTTL(ttl)]
        ELSE IF Len(rdatas) = 0 THEN [db |-> r.db, err |-> "rdatas: empty"]
        ELSE IF hasAAAA(nd) THEN [db |-> r.db, err |-> "AAAA record already set"]
        ELSE IF valid # "nil" THEN [db |-> r.db, err |-> valid]
        ELSE IF hasNS(nd) \/ hasCNAME(nd) THEN [db |-> r.db, err |-> "conflicting records"]
        ELSE [db |-> [r.db EXCEPT ![r.nd].aaaaTTL = ttl, ![r.nd].aaaaRDatas = rdatas],
              err |-> "nil"]

(* ---- getters: the result is [db, ret, err]; ret holds the records ------ *)

\* &Record{...}
Record(fqdn, rtype, ttl, rdatas) ==
    [FQDN |-> fqdn, RType |-> rtype, TTL |-> ttl, RDatas |-> rdatas]

\* variant of ns that always answers with the default TTL
ns_DefaultTTL(nd, ttl) ==
    IF ~hasNS(nd) THEN [ret |-> <<>>, err |-> "FQDN has no NS record"]
    ELSE [ret |-> <<Record(nd.fqdn, "NS", ttl, nd.nsRDatas)>>, err |-> "nil"]

ns(nd, ttl) ==
    IF ~hasNS(nd) THEN [ret |-> <<>>, err |-> "FQDN has no NS record"]
    ELSE [ret |-> <<Record(nd.fqdn, "NS", IF nd.nsTTL # 0 THEN nd.nsTTL ELSE ttl,
                           nd.nsRDatas)>>,
          err |-> "nil"]

mx(nd, ttl) ==
    IF ~hasMX(nd) THEN [ret |-> <<>>, err |-> "FQDN has no MX record"]
    ELSE [ret |-> <<Record(nd.fqdn, "MX", IF nd.mxTTL # 0 THEN nd.mxTTL ELSE ttl,
                           nd.mxRDatas)>>,
          err |-> "nil"]

\* fmt.Sprintf("%q", s) on printable ASCII: the text in double quotes, each
\* double quote and backslash in it escaped by a backslash
RECURSIVE Escape(_)
Escape(s) ==
    IF Len(s) = 0 THEN <<>>
    ELSE (IF s[1] \in {"\"", "\\"} THEN <<"\\", s[1]>> ELSE <<s[1]>>) \o Escape(Tail(s))

Quote(s) == <<"\"">> \o Escape(s) \o <<"\"">>

txt(nd, ttl) ==
    IF ~hasTXT(nd) THEN [ret |-> <<>>, err |-> "FQDN has no TXT record"]
    ELSE [ret |-> <<Record(nd.fqdn, "TXT", IF nd.txtTTL # 0 THEN nd.txtTTL ELSE ttl,
                           [i \in 1..Len(nd.txtRDatas) |-> Quote(nd.txtRDatas[i])])>>,
          err |-> "nil"]

cname(nd, ttl) ==
    IF ~hasCNAME(nd) THEN [ret |-> <<>>, err |-> "FQDN has no CNAME record"]
    ELSE [ret |-> <<Record(nd.fqdn, "CNAME", IF nd.cnameTTL # 0 THEN nd.cnameTTL ELSE ttl,
                           <<nd.cnameRdata>>)>>,
          err |-> "nil"]

a(nd, ttl) ==
    IF ~hasA(nd) THEN [ret |-> <<>>, err |-> "FQDN has no A record"]
    ELSE [ret |-> <<Record(nd.fqdn, "A", IF nd.aTTL # 0 THEN nd.aTTL ELSE ttl,
                           nd.aRDatas)>>,
          err |-> "nil"]

aaaa(nd, ttl) ==
    IF ~hasAAAA(nd) THEN [ret |-> <<>>, err |-> "FQDN has no AAAA record"]
    ELSE [ret |-> <<Record(nd.fqdn, "AAAA", IF nd.aaaaTTL # 0 THEN nd.aaaaTTL ELSE ttl,
                           nd.aaaaRDatas)>>,
          err |-> "nil"]

\* NS, MX, TXT, CNAME, A, AAAA: db.node(fqdn, false), then the node's getter
NS(d, fqdn, ttl) ==
    LET r == node(d, fqdn, FALSE)
    IN  IF r.err # "nil" THEN [db |-> r.db, ret |-> <<>>, err |-> r.err]
        ELSE [db |-> r.db, ret |-> ns(r.db[r.nd], ttl).ret, err |-> ns(r.db[r.nd], ttl).err]

MX(d, fqdn, ttl) ==
    LET r == node(d, fqdn, FALSE)
    IN  IF r.err # "nil" THEN [db |-> r.db, ret |-> <<>>, err |-> r.err]
        ELSE [db |-> r.db, ret |-> mx(r.db[r.nd], ttl).ret, err |-> mx(r.db[r.nd], ttl).err]

TXT(d, fqdn, ttl) ==
    LET r == node(d, fqdn, FALSE)
    IN  IF r.err # "nil" THEN [db |-> r.db, ret |-> <<>>, err |-> r.err]
        ELSE [db |-> r.db, ret |-> txt(r.db[r.nd], ttl).ret, err |-> txt(r.db[r.nd], ttl).err]

CNAME(d, fqdn, ttl) ==
    LET r == node(d, fqdn, FALSE)
    IN  IF r.err # "nil" THEN [db |-> r.db, ret |-> <<>>, err |-> r.err]
        ELSE [db |-> r.db, ret |-> cname(r.db[r.nd], ttl).ret, err |-> cname(r.db[r.nd], ttl).err]

A(d, fqdn, ttl) ==
    LET r == node(d, fqdn, FALSE)
    IN  IF r.err # "nil" THEN [db |-> r.db, ret |-> <<>>, err |-> r.err]
        ELSE [db |-> r.db, ret |-> a(r.db[r.nd], ttl).ret, err |-> a(r.db[r.nd], ttl).err]

AAAA(d, fqdn, ttl) ==
    LET r == node(d, fqdn, FALSE)
    IN  IF r.err # "nil" THEN [db |-> r.db, ret |-> <<>>, err |-> r.err]
        ELSE [db |-> r.db, ret |-> aaaa(r.db[r.nd], ttl).ret, err |-> aaaa(r.db[r.nd], ttl).err]

\* (nd *node).records(ttl, withChildren): the node's own records in the order
\* of the six getter calls, then, with withChildren, the records of every
\* child subtree.  "for _, next := range nd.children" ranges over a Go map,
\* whose iteration order is not specified and differs from one loop to the
\* next: the result is the set of the sequences the loop can build.
RECURSIVE records(_, _, _, _)
RECURSIVE childRecords(_, _, _, _)
\* variant of records that appends the node's own records after those of
\* its children
records_ChildrenFirst(d, id, ttl, withChildren) ==
    LET nd == d[id]
        own == ns(nd, ttl).ret \o mx(nd, ttl).ret \o txt(nd, ttl).ret
               \o cname(nd, ttl).ret \o a(nd, ttl).ret \o aaaa(nd, ttl).ret
    IN  IF withChildren
        THEN {rest \o own : rest \in childRecords(d, id, DOMAIN nd.children, ttl)}
        ELSE {own}

records(d, id, ttl, withChildren) ==
    LET nd == d[id]
        own == ns(nd, ttl).ret \o mx(nd, ttl).ret \o txt(nd, ttl).ret
               \o cname(nd, ttl).ret \o a(nd, ttl).ret \o aaaa(nd, ttl).ret
    IN  IF withChildren
        THEN {own \o rest : rest \in childRecords(d, id, DOMAIN nd.children, ttl)}
        ELSE {own}

\* the loop over nd.children with the labels in todo still to come
childRecords(d, id, todo, ttl) ==
    IF todo = {} THEN {<<>>}
    ELSE UNION {{first \o rest : first \in records(d, d[id].children[label], ttl, TRUE),
                                 rest \in childRecords(d, id, todo \ {label}, ttl)} :
                label \in todo}

\* variant of Records that descends into the children as Zone does
Records_WithChildren(d, fqdn, ttl) ==
    LET r == node(d, fqdn, FALSE)
    IN  IF r.err # "nil" THEN [db |-> r.db, ret |-> <<>>, err |-> r.err]
        ELSE [db |-> r.db,
              ret |-> CHOOSE rs \in records(r.db, r.nd, ttl, TRUE) : TRUE,
              err |-> "nil"]

\* Records: the result is [db, ret, err]
Records(d, fqdn, ttl) ==
    LET r == node(d, fqdn, FALSE)
    IN  IF r.err # "nil" THEN [db |-> r.db, ret |-> <<>>, err |-> r.err]
        ELSE [db |-> r.db,
              ret |-> CHOOSE rs \in records(r.db, r.nd, ttl, FALSE) : TRUE,
              err |-> "nil"]

\* variant of Zone that stops at the node as Records does
Zone_NoChildren(d, fqdn, ttl) ==
    LET r == node(d, fqdn, FALSE)
    IN  IF r.err # "nil" THEN {[db |-> r.db, ret |-> <<>>, err |-> r.err]}
        ELSE {[db |-> r.db, ret |-> rs, err |-> "nil"] :
                 rs \in records(r.db, r.nd, ttl, FALSE)}

\* Zone: the set of the results [db, ret, err] one call can have
Zone(d, fqdn, ttl) ==
    LET r == node(d, fqdn, FALSE)
    IN  IF r.err # "nil" THEN {[db |-> r.db, ret |-> <<>>, err |-> r.err]}
        ELSE {[db |-> r.db, ret |-> rs, err |-> "nil"] :
                 rs \in records(r.db, r.nd, ttl, TRUE)}

(* ---- the loader: the result is [db, err, calls] ------------------------ *)

\* A load function returns the database as it leaves it, its error, and
\* calls, the setter calls it made, in order, each with the error it returned.

\* strings.TrimSpace on ASCII
WhiteSpace == {" ", "\t", "\n", "\r"}

TrimSpace(s) ==
    LET keep == {i \in 1..Len(s) : s[i] \notin WhiteSpace}
    IN  IF keep = {} THEN <<>>
        ELSE SubSeq(s, CHOOSE i \in keep : \A j \in keep : i <= j,
                       CHOOSE i \in keep : \A j \in keep : i >= j)

\* fmt.Sprintf("%d", n) for n >= 0
RECURSIVE Itoa(_)
Itoa(n) ==
    IF n < 10 THEN <<DigitSeq[n + 1]>>
    ELSE Itoa(n \div 10) \o <<DigitSeq[(n % 10) + 1]>>

HasSuffix(s, suffix) ==
    Len(s) >= Len(suffix) /\ SubSeq(s, Len(s) - Len(suffix) + 1, Len(s)) = suffix

\* variant of MakeFQDN that puts every name but "@" under the zone
MakeFQDN_AlwaysRelative(name, zone) ==
    IF name = <<"@">> THEN zone
    ELSE name \o <<".">> \o zone

MakeFQDN(name, zone) ==
    IF name = <<"@">> THEN zone
    ELSE IF HasSuffix(name, <<".">>) THEN name
    ELSE name \o <<".">> \o zone

\* one setter call and the error it returned
SetterCall(op, fqdn, ttl, rdata, e) ==
    [op |-> op, fqdn |-> fqdn, ttl |-> ttl, rdata |-> rdata, err |-> e]

NoCalls(d) == [db |-> d, err |-> "nil", calls |-> <<>>]

\* In the definitions below a value that is used more than once is bound
\* by a set with one element ({... : r \in {e}}), so that it is computed once.

\* the result of a load function that made the one setter call r
OneCall(op, fqdn, ttl, rdata, r) ==
    [db |-> r.db, err |-> r.err, calls |-> <<SetterCall(op, fqdn, ttl, rdata, r.err)>>]

\* res with the calls made before it put in front
After(calls, res) == [res EXCEPT !.calls = calls \o @]

loadNS(d, fqdn, delegation) ==
    LET rdatas == [i \in 1..Len(delegation.Nameservers) |->
                      TrimSpace(delegation.Nameservers[i])]
    IN  IF Len(rdatas) = 0 THEN NoCalls(d)
        ELSE CHOOSE x \in {OneCall("SetNS", fqdn, delegation.TTL, rdatas, r) :
                              r \in {SetNS(d, fqdn, delegation.TTL, rdatas)}} : TRUE

loadMX(d, fqdn, mail) ==
    LET rdatas == [i \in 1..Len(mail.Mailservers) |->
                      Itoa(mail.Mailservers[i].Preference) \o <<" ">>
                      \o TrimSpace(mail.Mailservers[i].Mailserver)]
    IN  IF Len(rdatas) = 0 THEN NoCalls(d)
        ELSE CHOOSE x \in {OneCall("SetMX", fqdn, mail.TTL, rdatas, r) :
                              r \in {SetMX(d, fqdn, mail.TTL, rdatas)}} : TRUE

\* variant of loadTXT that goes on after an AddTXT that failed
RECURSIVE loadTXT_NoBreak(_, _, _, _)
loadTXT_NoBreak(d, fqdn, texts, i) ==
    IF i > Len(texts.Data) THEN NoCalls(d)
    ELSE CHOOSE x \in
             {IF i = Len(texts.Data) THEN r
              ELSE After(r.calls, loadTXT_NoBreak(r.db, fqdn, texts, i + 1)) :
                 r \in {OneCall("AddTXT", fqdn, texts.TTL, TrimSpace(texts.Data[i]), sr) :
                           sr \in {AddTXT(d, fqdn, texts.TTL, TrimSpace(texts.Data[i]))}}} : TRUE

\* variant of loadTXT that takes the strings last to first
RECURSIVE loadTXT_LastFirst(_, _, _, _)
loadTXT_LastFirst(d, fqdn, texts, i) ==
    IF i > Len(texts.Data) THEN NoCalls(d)
    ELSE CHOOSE x \in
             {IF r.err # "nil" THEN r
              ELSE After(r.calls, loadTXT_LastFirst(r.db, fqdn, texts, i + 1)) :
                 r \in {OneCall("AddTXT", fqdn, texts.TTL,
                                TrimSpace(texts.Data[Len(texts.Data) - i + 1]), sr) :
                           sr \in {AddTXT(d, fqdn, texts.TTL,
                                         TrimSpace(texts.Data[Len(texts.Data) - i + 1]))}}} : TRUE

\* loadTXT from texts.Data[i] on: the loop breaks at the first error
RECURSIVE loadTXT(_, _, _, _)
loadTXT(d, fqdn, texts, i) ==
    IF i > Len(texts.Data) THEN NoCalls(d)
    ELSE CHOOSE x \in
             {IF r.err # "nil" THEN r
              ELSE After(r.calls, loadTXT(r.db, fqdn, texts, i + 1)) :
                 r \in {OneCall("AddTXT", fqdn, texts.TTL, TrimSpace(texts.Data[i]), sr) :
                           sr \in {AddTXT(d, fqdn, texts.TTL, TrimSpace(texts.Data[i]))}}} : TRUE

loadCNAME(d, fqdn, forwarding) ==
    LET rdata == TrimSpace(forwarding.Target)
    IN  IF Len(rdata) = 0 THEN NoCalls(d)
        ELSE CHOOSE x \in {OneCall("SetCNAME", fqdn, forwarding.TTL, rdata, r) :
                              r \in {SetCNAME(d, fqdn, forwarding.TTL, rdata)}} : TRUE

\* the two calls that follow the loop of loadAddresses: SetA when aRDatas is
\* not empty, and then, unless it failed, SetAAAA when aaaaRDatas is not
setAddresses(d, fqdn, ttl, aRDatas, aaaaRDatas) ==
    CHOOSE x \in
        {IF ra.err # "nil" \/ Len(aaaaRDatas) = 0 THEN ra
         ELSE After(ra.calls, CHOOSE y \in {OneCall("SetAAAA", fqdn, ttl, aaaaRDatas, r6) :
                                               r6 \in {SetAAAA(ra.db, fqdn, ttl, aaaaRDatas)}} : TRUE) :
            ra \in {IF Len(aRDatas) = 0 THEN NoCalls(d)
                    ELSE CHOOSE y \in {OneCall("SetA", fqdn, ttl, aRDatas, r) :
                                          r \in {SetA(d, fqdn, ttl, aRDatas)}} : TRUE}} : TRUE

\* variant of loadAddresses that sets the A list before it looks at the
\* literals that are not IPv4
loadAddresses_SetAEarly(d, fqdn, addresses) ==
    LET IsV4(l) == IsValidIPv4(l) = "nil"
        IsV6(l) == IsValidIPv4(l) # "nil" /\ IsValidIPv6(l) = "nil"
        aRDatas == SelectSeq(addresses.Literals, IsV4)
        aaaaRDatas == SelectSeq(addresses.Literals, IsV6)
        invalid == \E i \in 1..Len(addresses.Literals) :
                      ~IsV4(addresses.Literals[i]) /\ ~IsV6(addresses.Literals[i])
    IN  CHOOSE x \in
            {IF ra.err # "nil" THEN ra
             ELSE IF invalid THEN [ra EXCEPT !.err = "invalid address"]
             ELSE After(ra.calls, setAddresses(ra.db, fqdn, addresses.TTL, <<>>, aaaaRDatas)) :
                ra \in {setAddresses(d, fqdn, addresses.TTL, aRDatas, <<>>)}} : TRUE

\* the loop over the literals runs to its end, or to the first literal that
\* is neither IPv4 nor IPv6, before SetA and SetAAAA are called
loadAddresses(d, fqdn, addresses) ==
    LET IsV4(l) == IsValidIPv4(l) = "nil"
        IsV6(l) == IsValidIPv4(l) # "nil" /\ IsValidIPv6(l) = "nil"
        aRDatas == SelectSeq(addresses.Literals, IsV4)
        aaaaRDatas == SelectSeq(addresses.Literals, IsV6)
        invalid == \E i \in 1..Len(addresses.Literals) :
                      ~IsV4(addresses.Literals[i]) /\ ~IsV6(addresses.Literals[i])
    IN  IF invalid THEN [db |-> d, err |-> "invalid address", calls |-> <<>>]
        ELSE setAddresses(d, fqdn, addresses.TTL, aRDatas, aaaaRDatas)

\* the five load functions in the order loadNames calls them, and what the
\* error of each is wrapped in
LoadBlocks == <<"delegations", "mailservers", "texts", "forwarding", "addresses">>

loadBlock(d, fqdn, name, b) ==
    CASE b = 1 -> loadNS(d, fqdn, name.Delegation)
      [] b = 2 -> loadMX(d, fqdn, name.Mail)
      [] b = 3 -> loadTXT(d, fqdn, name.Texts, 1)
      [] b = 4 -> loadCNAME(d, fqdn, name.Forwarding)
      [] b = 5 -> loadAddresses(d, fqdn, name.Addresses)

\* the body of the loop of loadNames for one name, from load function b on:
\* the first error is wrapped and returned
RECURSIVE loadName(_, _, _, _)
loadName(d, fqdn, name, b) ==
    IF b > Len(LoadBlocks) THEN NoCalls(d)
    ELSE CHOOSE x \in
             {IF r.err # "nil"
              THEN [r EXCEPT !.err = "zone: name: load " \o LoadBlocks[b] \o ": " \o @]
              ELSE After(r.calls, loadName(r.db, fqdn, name, b + 1)) :
                 r \in {loadBlock(d, fqdn, name, b)}} : TRUE

\* loadNames from names[i] on
RECURSIVE loadNames(_, _, _, _)
loadNames(d, names, zone, i) ==
    IF i > Len(names) THEN NoCalls(d)
    ELSE CHOOSE x \in
             {IF r.err # "nil" THEN r
              ELSE After(r.calls, loadNames(r.db, names, zone, i + 1)) :
                 r \in {loadName(d, MakeFQDN(names[i].Name, zone.Zone), names[i], 1)}} : TRUE

\* the templates of the files in the order the range over the map of files
\* visits them; fileOrder is a sequence of indices into files
RECURSIVE FlatTemplates(_, _, _)
FlatTemplates(files, fileOrder, k) ==
    IF k > Len(fileOrder) THEN <<>>
    ELSE files[fileOrder[k]].Templates \o FlatTemplates(files, fileOrder, k + 1)

RECURSIVE FlatZones(_, _, _)
FlatZones(files, fileOrder, k) ==
    IF k > Len(fileOrder) THEN <<>>
    ELSE files[fileOrder[k]].Zones \o FlatZones(files, fileOrder, k + 1)

\* variant of the templates loop that lets a later template of the same
\* name replace the earlier one
buildTemplates_LastWins(flat) ==
    LET empty == {i \in 1..Len(flat) : Len(flat[i].Names) = 0}
    IN  IF empty # {} THEN [err |-> "file: template: empty", templates |-> <<>>]
        ELSE [err |-> "nil", templates |-> flat]

\* the loop that builds the templates map: the first template that is seen
\* already, or has no names, ends it; templates is the list of the entries
buildTemplates(flat) ==
    LET dup == {i \in 1..Len(flat) : \E j \in 1..(i - 1) : flat[j].Template = flat[i].Template}
        empty == {i \in 1..Len(flat) : Len(flat[i].Names) = 0}
        bad == dup \cup empty
        first == CHOOSE i \in bad : \A j \in bad : i <= j
    IN  IF bad = {} THEN [err |-> "nil", templates |-> flat]
        ELSE IF first \in dup THEN [err |-> "file: template: duplicate", templates |-> <<>>]
        ELSE [err |-> "file: template: empty", templates |-> <<>>]

HasTemplate(templates, name) == \E i \in 1..Len(templates) : templates[i].Template = name

\* templates[name]: the entry stored last under the name
TemplateNames(templates, name) ==
    templates[CHOOSE i \in 1..Len(templates) :
                 /\ templates[i].Template = name
                 /\ \A j \in 1..Len(templates) : templates[j].Template = name => j <= i].Names

\* the loop over zone.Templates from zone.Templates[i] on, then the zone's
\* own names
RECURSIVE loadZone(_, _, _, _)
loadZone(d, templates, zone, i) ==
    IF i > Len(zone.Templates)
    THEN CHOOSE x \in {IF r.err # "nil" THEN [r EXCEPT !.err = "file: " \o @] ELSE r :
                          r \in {loadNames(d, zone.Names, zone, 1)}} : TRUE
    ELSE IF ~HasTemplate(templates, zone.Templates[i])
    THEN [db |-> d, err |-> "file: zone: template: not found", calls |-> <<>>]
    ELSE CHOOSE x \in
             {IF r.err # "nil" THEN [r EXCEPT !.err = "file: template: " \o @]
              ELSE After(r.calls, loadZone(r.db, templates, zone, i + 1)) :
                 r \in {loadNames(d, TemplateNames(templates, zone.Templates[i]), zone, 1)}} : TRUE

RECURSIVE loadZones(_, _, _, _)
loadZones(d, templates, zones, i) ==
    IF i > Len(zones) THEN NoCalls(d)
    ELSE CHOOSE x \in
             {IF r.err # "nil" THEN r
              ELSE After(r.calls, loadZones(r.db, templates, zones, i + 1)) :
                 r \in {loadZone(d, templates, zones[i], 1)}} : TRUE

\* the orders in which a range over a map with the keys 1..n can visit them
Orders(n) == {o \in [1..n -> 1..n] : \A i, j \in 1..n : o[i] = o[j] => i = j}

\* no store: the nil *RRDB
NilDB == <<>>

\* what NewFromDirectory returns after the loop over the zones left r
Returned(r) ==
    IF r.err # "nil" THEN [store |-> NilDB, err |-> r.err, calls |-> r.calls]
    ELSE IF DOMAIN r.db[RootNode].children = {}
    THEN [store |-> NilDB, err |-> "empty database", calls |-> r.calls]
    ELSE [store |-> r.db, err |-> "nil", calls |-> r.calls]

\* variant of NewFromDirectory that hands the store out with the error
NewFromDirectory_ReturnsPartial(files) ==
    IF \E k \in 1..Len(files) : ~files[k].parses
    THEN {[store |-> NilDB, err |-> "file: parse error", calls |-> <<>>]}
    ELSE UNION {IF t.err # "nil" THEN {[store |-> NilDB, err |-> t.err, calls |-> <<>>]}
                ELSE {[store |-> r.db, err |-> Returned(r).err, calls |-> r.calls] :
                         r \in {loadZones(New, t.templates, FlatZones(files, o2, 1), 1) :
                                   o2 \in Orders(Len(files))}} :
                   t \in {buildTemplates(FlatTemplates(files, o1, 1)) : o1 \in Orders(Len(files))}}

\* NewFromDirectory over the files of the directory, each parsed or not:
\* the set of the results over the orders of the two ranges over the map of
\* files; store is what the caller receives, calls the setter calls made
NewFromDirectory(files) ==
    IF \E k \in 1..Len(files) : ~files[k].parses
    THEN {[store |-> NilDB, err |-> "file: parse error", calls |-> <<>>]}
    ELSE UNION {IF t.err # "nil" THEN {[store |-> NilDB, err |-> t.err, calls |-> <<>>]}
                ELSE {Returned(r) :
                         r \in {loadZones(New, t.templates, FlatZones(files, o2, 1), 1) :
                                   o2 \in Orders(Len(files))}} :
                   t \in {buildTemplates(FlatTemplates(files, o1, 1)) : o1 \in Orders(Len(files))}}

(* ---- the inputs of the calls ------------------------------------------ *)

fA == <<"a", ".">>

fCBA == <<"c", ".", "b", ".", "a", ".">>

\* a label may not start with a hyphen
fBad == <<"-", "a", ".">>

FQDNs == {fA, fCBA, fBad}

\* TTLs of the set-once types and of AddTXT
TTLs == {-1, 0, 300}

TXTTTLs == {-1, 0, 300, 600}

\* the default TTL a getter is called with
DefaultTTLs == {600}

ns1 == <<"n", ".">>

ns2 == <<"m", ".">>

NSRDatas == {<<>>, <<ns1, ns2>>, <<ns1, <<"n">>>>}

MXRDatas == {<<<<"1", " ", "n", ".">>, <<"2", " ", "m", ".">>>>,
             <<<<"1", " ", "n", ".">>, <<"2", " ", "n", ".">>>>}

TXTRDatas == {<<"t">>,
              <<"v", "=", "s", "p", "f", "1", " ", "a">>,
              <<"V", "=", "S", "P", "F", "1", ";">>,
              <<"v", "=", "D", "K", "I", "M", "1", ";">>}

CNAMERDatas == {ns1, <<"n">>}

ARDatas == {<<"192.0.2.1", "192.0.2.155">>, <<"2001:db8::1">>}

AAAARDatas == {<<"2001:db8::1", "2001:db8::cafe">>, <<"192.0.2.1">>}

(* ---- the state machine ------------------------------------------------ *)

VARIABLES
    db,      \* the arena of nodes of one RRDB; db[RootNode] is db.root
    call,    \* the last call: [op, fqdn, ttl, rdata]
    err,     \* the error the last call returned, "nil" for none
    ret,     \* the records the last call returned
    ncalls,  \* number of calls made
    run      \* the run of a command (rrpush, mzcreate), NoRun when there is none

vars == <<db, call, err, ret, ncalls, run>>

NoRun == [tool |-> "none"]

NoCall == [op |-> "New", fqdn |-> <<>>, ttl |-> 0, rdata |-> <<>>]

Init ==
    /\ db = New
    /\ call = NoCall
    /\ err = "nil"
    /\ ret = <<>>
    /\ ncalls = 0
    /\ run = NoRun

\* a call can be made while the program runs: a panic ended it
CanCall == ncalls < MaxCalls /\ err # "panic: index out of range"

CallSetNS ==
    /\ CanCall
    /\ \E fqdn \in FQDNs, ttl \in TTLs, rdatas \in NSRDatas :
        \E r \in {SetNS(db, fqdn, ttl, rdatas)} :
            /\ db' = r.db
            /\ err' = r.err
            /\ ret' = <<>>
            /\ call' = [op |-> "SetNS", fqdn |-> fqdn, ttl |-> ttl, rdata |-> rdatas]
    /\ ncalls' = ncalls + 1
    /\ UNCHANGED run

CallSetMX ==
    /\ CanCall
    /\ \E fqdn \in FQDNs, ttl \in TTLs, rdatas \in MXRDatas :
        \E r \in {SetMX(db, fqdn, ttl, rdatas)} :
            /\ db' = r.db
            /\ err' = r.err
            /\ ret' = <<>>
            /\ call' = [op |-> "SetMX", fqdn |-> fqdn, ttl |-> ttl, rdata |-> rdatas]
    /\ ncalls' = ncalls + 1
    /\ UNCHANGED run

CallAddTXT ==
    /\ CanCall
    /\ \E fqdn \in FQDNs, ttl \in TXTTTLs, rdata \in TXTRDatas :
        \E r \in {AddTXT(db, fqdn, ttl, rdata)} :
            /\ db' = r.db
            /\ err' = r.err
            /\ ret' = <<>>
            /\ call' = [op |-> "AddTXT", fqdn |-> fqdn, ttl |-> ttl, rdata |-> rdata]
    /\ ncalls' = ncalls + 1
    /\ UNCHANGED run

CallSetCNAME ==
    /\ CanCall
    /\ \E fqdn \in FQDNs, ttl \in TTLs, rdata \in CNAMERDatas :
        \E r \in {SetCNAME(db, fqdn, ttl, rdata)} :
            /\ db' = r.db
            /\ err' = r.err
            /\ ret' = <<>>
            /\ call' = [op |-> "SetCNAME", fqdn |-> fqdn, ttl |-> ttl, rdata |-> rdata]
    /\ ncalls' = ncalls + 1
    /\ UNCHANGED run

CallSetA ==
    /\ CanCall
    /\ \E fqdn \in FQDNs, ttl \in TTLs, rdatas \in ARDatas :
        \E r \in {SetA(db, fqdn, ttl, rdatas)} :
            /\ db' = r.db
            /\ err' = r.err
            /\ ret' = <<>>
            /\ call' = [op |-> "SetA", fqdn |-> fqdn, ttl |-> ttl, rdata |-> rdatas]
    /\ ncalls' = ncalls + 1
    /\ UNCHANGED run

CallSetAAAA ==
    /\ CanCall
    /\ \E fqdn \in FQDNs, ttl \in TTLs, rdatas \in AAAARDatas :
        \E r \in {SetAAAA(db, fqdn, ttl, rdatas)} :
            /\ db' = r.db
            /\ err' = r.err
            /\ ret' = <<>>
            /\ call' = [op |-> "SetAAAA", fqdn |-> fqdn, ttl |-> ttl, rdata |-> rdatas]
    /\ ncalls' = ncalls + 1
    /\ UNCHANGED run

CallNS ==
    /\ CanCall
    /\ \E fqdn \in FQDNs, ttl \in DefaultTTLs :
        \E r \in {NS(db, fqdn, ttl)} :
            /\ db' = r.db
            /\ err' = r.err
            /\ ret' = r.ret
            /\ call' = [op |-> "NS", fqdn |-> fqdn, ttl |-> ttl, rdata |-> <<>>]
    /\ ncalls' = ncalls + 1
    /\ UNCHANGED run

CallMX ==
    /\ CanCall
    /\ \E fqdn \in FQDNs, ttl \in DefaultTTLs :
        \E r \in {MX(db, fqdn, ttl)} :
            /\ db' = r.db
            /\ err' = r.err
            /\ ret' = r.ret
            /\ call' = [op |-> "MX", fqdn |-> fqdn, ttl |-> ttl, rdata |-> <<>>]
    /\ ncalls' = ncalls + 1
    /\ UNCHANGED run

CallTXT ==
    /\ CanCall
    /\ \E fqdn \in FQDNs, ttl \in DefaultTTLs :
        \E r \in {TXT(db, fqdn, ttl)} :
            /\ db' = r.db
            /\ err' = r.err
            /\ ret' = r.ret
            /\ call' = [op |-> "TXT", fqdn |-> fqdn, ttl |-> ttl, rdata |-> <<>>]
    /\ ncalls' = ncalls + 1
    /\ UNCHANGED run

CallCNAME ==
    /\ CanCall
    /\ \E fqdn \in FQDNs, ttl \in DefaultTTLs :
        \E r \in {CNAME(db, fqdn, ttl)} :
            /\ db' = r.db
            /\ err' = r.err
            /\ ret' = r.ret
            /\ call' = [op |-> "CNAME", fqdn |-> fqdn, ttl |-> ttl, rdata |-> <<>>]
    /\ ncalls' = ncalls + 1
    /\ UNCHANGED run

CallA ==
    /\ CanCall
    /\ \E fqdn \in FQDNs, ttl \in DefaultTTLs :
        \E r \in {A(db, fqdn, ttl)} :
            /\ db' = r.db
            /\ err' = r.err
            /\ ret' = r.ret
            /\ call' = [op |-> "A", fqdn |-> fqdn, ttl |-> ttl, rdata |-> <<>>]
    /\ ncalls' = ncalls + 1
    /\ UNCHANGED run

CallAAAA ==
    /\ CanCall
    /\ \E fqdn \in FQDNs, ttl \in DefaultTTLs :
        \E r \in {AAAA(db, fqdn, ttl)} :
            /\ db' = r.db
            /\ err' = r.err
            /\ ret' = r.ret
            /\ call' = [op |-> "AAAA", fqdn |-> fqdn, ttl |-> ttl, rdata |-> <<>>]
    /\ ncalls' = ncalls + 1
    /\ UNCHANGED run

CallRecords ==
    /\ CanCall
    /\ \E fqdn \in FQDNs, ttl \in DefaultTTLs :
        \E r \in {Records(db, fqdn, ttl)} :
            /\ db' = r.db
            /\ err' = r.err
            /\ ret' = r.ret
            /\ call' = [op |-> "Records", fqdn |-> fqdn, ttl |-> ttl, rdata |-> <<>>]
    /\ ncalls' = ncalls + 1
    /\ UNCHANGED run

CallZone ==
    /\ CanCall
    /\ \E fqdn \in FQDNs, ttl \in DefaultTTLs :
        \E r \in Zone(db, fqdn, ttl) :
            /\ db' = r.db
            /\ err' = r.err
            /\ ret' = r.ret
            /\ call' = [op |-> "Zone", fqdn |-> fqdn, ttl |-> ttl, rdata |-> <<>>]
    /\ ncalls' = ncalls + 1
    /\ UNCHANGED run

Next ==
    \/ CallSetNS
    \/ CallSetMX
    \/ CallAddTXT
    \/ CallSetCNAME
    \/ CallSetA
    \/ CallSetAAAA
    \/ CallNS
    \/ CallMX
    \/ CallTXT
    \/ CallCNAME
    \/ CallA
    \/ CallAAAA
    \/ CallRecords
    \/ CallZone

Spec == Init /\ [][Next]_vars

(* ---- vocabulary of the properties ------------------------------------- *)

SetterOps == {"SetNS", "SetMX", "AddTXT", "SetCNAME", "SetA", "SetAAAA"}

\* the nodes of a database other than its root
NodeIds(d) == 2..Len(d)

\* the nodes of database d whose FQDN is f
NodesAt(d, f) == {i \in NodeIds(d) : d[i].fqdn = f}

\* the labels of an FQDN, leftmost first
Labels(f) == Split(Trim(f, "."), ".")

\* FQDN f lies strictly below FQDN g: g's labels are a proper suffix of f's
StrictlyBelow(f, g) ==
    /\ Len(Labels(f)) > Len(Labels(g))
    /\ SubSeq(Labels(f), Len(Labels(f)) - Len(Labels(g)) + 1, Len(Labels(f))) = Labels(g)

\* everything a node stores for its six record types
Payload(nd) ==
    [nsRDatas |-> nd.nsRDatas, nsTTL |-> nd.nsTTL,
     mxRDatas |-> nd.mxRDatas, mxTTL |-> nd.mxTTL,
     txtRDatas |-> nd.txtRDatas, txtTTL |-> nd.txtTTL,
     txtSPF1 |-> nd.txtSPF1, txtDKIM1 |-> nd.txtDKIM1,
     cnameRdata |-> nd.cnameRdata, cnameTTL |-> nd.cnameTTL,
     aRDatas |-> nd.aRDatas, aTTL |-> nd.aTTL,
     aaaaRDatas |-> nd.aaaaRDatas, aaaaTTL |-> nd.aaaaTTL]

(* ---- C1 ---------------------------------------------------------------- *)

\* C1: in every reachable state a node that holds an NS payload holds no MX,
\* TXT, CNAME, A or AAAA payload and has no child node (so a SetNS on a node
\* that has a child cannot have succeeded).
C1_NSNodeIsBareLeaf ==
    \A i \in 1..Len(db) :
        Len(db[i].nsRDatas) # 0 =>
            /\ Len(db[i].mxRDatas) = 0
            /\ Len(db[i].txtRDatas) = 0
            /\ Len(db[i].cnameRdata) = 0
            /\ Len(db[i].aRDatas) = 0
            /\ Len(db[i].aaaaRDatas) = 0
            /\ DOMAIN db[i].children = {}

\* a setter was rejected at or below a node that holds NS
C1_Witness ==
    /\ call.op \in SetterOps
    /\ err # "nil"
    /\ \E i \in NodeIds(db) :
        /\ Len(db[i].nsRDatas) # 0
        /\ call.fqdn = db[i].fqdn \/ StrictlyBelow(call.fqdn, db[i].fqdn)

(* ---- C2 ---------------------------------------------------------------- *)

\* C2: in every reachable state a node that holds a CNAME payload holds no
\* NS, MX, TXT, A or AAAA payload, whichever setter was called first.
C2_CNAMENodeHoldsNothingElse ==
    \A i \in 1..Len(db) :
        Len(db[i].cnameRdata) # 0 =>
            /\ Len(db[i].nsRDatas) = 0
            /\ Len(db[i].mxRDatas) = 0
            /\ Len(db[i].txtRDatas) = 0
            /\ Len(db[i].aRDatas) = 0
            /\ Len(db[i].aaaaRDatas) = 0

\* a setter was rejected as conflicting on a node that holds CNAME
C2_Witness ==
    /\ call.op \in SetterOps \ {"SetCNAME"}
    /\ err \in {"conflicting records", "conflicting record"}
    /\ \E i \in NodesAt(db, call.fqdn) : Len(db[i].cnameRdata) # 0

(* ---- C3 ---------------------------------------------------------------- *)

\* C3: a setter whose FQDN lies strictly below a node that holds NS fails with
\* "FQDN outside authority", creates no node and changes no payload: the
\* database is left as it was.
C3_BelowDelegationRejected ==
    [][(/\ call'.op \in SetterOps
        /\ \E i \in NodeIds(db) : /\ Len(db[i].nsRDatas) # 0
                                  /\ StrictlyBelow(call'.fqdn, db[i].fqdn))
       => (err' = "FQDN outside authority" /\ db' = db)]_vars

\* SetNS on a., then a setter on c.b.a. was rejected
C3_Witness ==
    /\ call.op \in SetterOps
    /\ err = "FQDN outside authority"
    /\ \E i \in NodeIds(db) : /\ Len(db[i].nsRDatas) # 0
                              /\ StrictlyBelow(call.fqdn, db[i].fqdn)

(* ---- C4 ---------------------------------------------------------------- *)

\* C4: a setter call that returns an error has no side effect on the store,
\* the set of trie nodes included: the database after the call is the
\* database before it.
C4_RejectedCallLeavesStore ==
    [][(call'.op \in SetterOps /\ err' # "nil") => db' = db]_vars

(* ---- C5 ---------------------------------------------------------------- *)

\* C5: a setter call that returns an error changes no payload: every node
\* keeps its rdata, its TTLs and its SPF and DKIM flags, and a node the call
\* has created holds nothing.
C5_RejectedCallKeepsPayloads ==
    [][(call'.op \in SetterOps /\ err' # "nil")
       => /\ Len(db') >= Len(db)
          /\ \A i \in 1..Len(db') :
                Payload(db'[i]) = IF i <= Len(db) THEN Payload(db[i])
                                  ELSE Payload(NewNode(<<>>, NilNode))]_vars

\* an AddTXT was rejected on a node that holds TXT strings
C5_Witness ==
    /\ call.op = "AddTXT"
    /\ err # "nil"
    /\ \E i \in NodesAt(db, call.fqdn) : Len(db[i].txtRDatas) # 0

(* ---- C6 ---------------------------------------------------------------- *)

SetOnceOps == {"SetNS", "SetMX", "SetCNAME", "SetA", "SetAAAA"}

\* the payload a set-once setter writes, as [rdata, ttl]
Stored(nd, op) ==
    CASE op = "SetNS" -> <<nd.nsRDatas, nd.nsTTL>>
      [] op = "SetMX" -> <<nd.mxRDatas, nd.mxTTL>>
      [] op = "SetCNAME" -> <<nd.cnameRdata, nd.cnameTTL>>
      [] op = "SetA" -> <<nd.aRDatas, nd.aTTL>>
      [] op = "SetAAAA" -> <<nd.aaaaRDatas, nd.aaaaTTL>>

AlreadySet(op) ==
    CASE op = "SetNS" -> "NS record already set"
      [] op = "SetMX" -> "MX record already set"
      [] op = "SetCNAME" -> "CNAME record already set"
      [] op = "SetA" -> "A record already set"
      [] op = "SetAAAA" -> "AAAA record already set"

\* C6: SetNS, SetMX, SetCNAME, SetA or SetAAAA with a valid TTL and non-empty
\* rdata on an FQDN whose node already holds that type fails with "already
\* set", and the node keeps the rdata and TTL of the first call.
C6_SecondSetRejected ==
    [][\A i \in NodeIds(db) :
          (/\ call'.op \in SetOnceOps
           /\ call'.fqdn = db[i].fqdn
           /\ call'.ttl >= 0 /\ call'.ttl <= MaxTTL
           /\ Len(call'.rdata) # 0
           /\ Len(Stored(db[i], call'.op)[1]) # 0)
          => /\ err' = AlreadySet(call'.op)
             /\ Stored(db'[i], call'.op) = Stored(db[i], call'.op)]_vars

\* a second set of the same type was rejected
C6_Witness ==
    /\ call.op \in SetOnceOps
    /\ err = AlreadySet(call.op)
    /\ call.ttl >= 0 /\ Len(call.rdata) # 0
    /\ \E i \in NodesAt(db, call.fqdn) : Len(Stored(db[i], call.op)[1]) # 0

(* ---- C7 ---------------------------------------------------------------- *)

\* the getter and the type tag that belong to a set-once setter
GetterOf(op) ==
    CASE op = "SetNS" -> "NS"
      [] op = "SetMX" -> "MX"
      [] op = "SetCNAME" -> "CNAME"
      [] op = "SetA" -> "A"
      [] op = "SetAAAA" -> "AAAA"

\* C7: for NS, MX, CNAME, A and AAAA, the matching getter called as (f, d)
\* right after a successful Set(f, t, rdatas) returns one Record with FQDN f,
\* the type's tag, the rdata of the call in its order, and TTL t if t is not
\* 0 and d otherwise.
C7_GetterReturnsWhatWasSet ==
    [][(/\ call.op \in SetOnceOps
        /\ err = "nil"
        /\ call'.op = GetterOf(call.op)
        /\ call'.fqdn = call.fqdn)
       => /\ err' = "nil"
          /\ ret' = <<[FQDN |-> call.fqdn,
                       RType |-> GetterOf(call.op),
                       TTL |-> IF call.ttl # 0 THEN call.ttl ELSE call'.ttl,
                       RDatas |-> IF call.op = "SetCNAME" THEN <<call.rdata>>
                                  ELSE call.rdata]>>]_vars

\* a getter has returned a record that carries the default TTL it was given,
\* and one that carries the TTL that was set
C7_Witness ==
    /\ call.op \in {"NS", "MX", "CNAME", "A", "AAAA"}
    /\ err = "nil"
    /\ Len(ret) = 1
    /\ ret[1].TTL = call.ttl
    /\ Len(ret[1].RDatas) >= 1

(* ---- C8 ---------------------------------------------------------------- *)

\* AddTXT would take rdata on node nd as far as everything but the TTL goes
TXTAcceptable(nd, rdata) ==
    /\ Len(rdata) # 0 /\ Len(rdata) <= MaxTXTLen
    /\ \A k \in 1..Len(nd.txtRDatas) : nd.txtRDatas[k] # rdata
    /\ Len(nd.nsRDatas) = 0 /\ Len(nd.cnameRdata) = 0
    /\ ~(isSPF1(rdata) /\ nd.txtSPF1)
    /\ ~(isDKIM1(rdata) /\ nd.txtDKIM1)

\* C8 as the specification states it: AddTXT with TTL 0 on a node whose TXT
\* TTL is recorded as non-zero is accepted, the string is appended and the
\* non-zero TTL is kept.
C8_ZeroTTLAccepted ==
    [][\A i \in NodeIds(db) :
          (/\ call'.op = "AddTXT"
           /\ call'.fqdn = db[i].fqdn
           /\ call'.ttl = 0
           /\ db[i].txtTTL # 0
           /\ TXTAcceptable(db[i], call'.rdata))
          => /\ err' = "nil"
             /\ db'[i].txtRDatas = Append(db[i].txtRDatas, call'.rdata)
             /\ db'[i].txtTTL = db[i].txtTTL]_vars

\* C8, amended: AddTXT with TTL 0 on a node whose TXT TTL is recorded as
\* non-zero is rejected with "TTL already set"; nothing is appended and the
\* node's non-zero TXT TTL is kept.
C8_ZeroTTLRejected ==
    [][\A i \in NodeIds(db) :
          (/\ call'.op = "AddTXT"
           /\ call'.fqdn = db[i].fqdn
           /\ call'.ttl = 0
           /\ db[i].txtTTL # 0)
          => /\ err' = "TTL already set"
             /\ db'[i].txtRDatas = db[i].txtRDatas
             /\ db'[i].txtTTL = db[i].txtTTL]_vars

\* AddTXT with TTL 0 was rejected on a node whose TXT TTL is not 0
C8_Witness ==
    /\ call.op = "AddTXT"
    /\ call.ttl = 0
    /\ err = "TTL already set"
    /\ \E i \in NodesAt(db, call.fqdn) : db[i].txtTTL # 0 /\ Len(db[i].txtRDatas) # 0

(* ---- C9 ---------------------------------------------------------------- *)

\* C9: no call changes a TXT TTL that is not 0, and AddTXT with a non-zero
\* TTL other than the recorded non-zero one fails and appends nothing.
C9_TXTTTLIsFinal ==
    [][\A i \in NodeIds(db) :
          db[i].txtTTL # 0 =>
             /\ db'[i].txtTTL = db[i].txtTTL
             /\ (/\ call'.op = "AddTXT"
                 /\ call'.fqdn = db[i].fqdn
                 /\ call'.ttl # 0
                 /\ call'.ttl # db[i].txtTTL)
                => (err' # "nil" /\ db'[i].txtRDatas = db[i].txtRDatas)]_vars

\* AddTXT with another non-zero TTL was rejected
C9_Witness ==
    /\ call.op = "AddTXT"
    /\ call.ttl > 0
    /\ err = "TTL already set"
    /\ \E i \in NodesAt(db, call.fqdn) : db[i].txtTTL # 0 /\ db[i].txtTTL # call.ttl

(* ---- C10 --------------------------------------------------------------- *)

\* C10: no step removes a node or a child link, changes the rdata or TTL of a
\* stored NS, MX, CNAME, A or AAAA payload, or changes a TXT list other than
\* by appending at its end.
C10_StoredPayloadsPersist ==
    [][/\ Len(db') >= Len(db)
       /\ \A i \in 1..Len(db) :
            /\ db'[i].fqdn = db[i].fqdn
            /\ db'[i].parent = db[i].parent
            /\ \A l \in DOMAIN db[i].children :
                  l \in DOMAIN db'[i].children /\ db'[i].children[l] = db[i].children[l]
            /\ \A op \in SetOnceOps :
                  Len(Stored(db[i], op)[1]) # 0 => Stored(db'[i], op) = Stored(db[i], op)
            /\ Len(db'[i].txtRDatas) >= Len(db[i].txtRDatas)
            /\ SubSeq(db'[i].txtRDatas, 1, Len(db[i].txtRDatas)) = db[i].txtRDatas]_vars

\* a second setter has succeeded on a node that already held a payload
C10_Witness ==
    /\ ncalls >= 2
    /\ call.op \in SetterOps
    /\ err = "nil"
    /\ \E i \in NodesAt(db, call.fqdn) :
          \/ Len(db[i].txtRDatas) >= 2
          \/ Cardinality({op \in SetOnceOps : Len(Stored(db[i], op)[1]) # 0}) >= 2

(* ---- TXT records: calls of AddTXT and TXT only -------------------------- *)

\* number of calls made in one behaviour of SpecTXT
MaxTXTCalls == 3

TXTFQDNs == {fA, fCBA}

TXTOwnTTLs == {0, 300}

\* the strings of TXTRDatas and a second DKIM1 string
TXTStrings == TXTRDatas \cup {<<"v", "=", "d", "k", "i", "m", "1", " ", "k">>}

AddTXTStep ==
    /\ ncalls < MaxTXTCalls
    /\ \E fqdn \in TXTFQDNs, ttl \in TXTOwnTTLs, rdata \in TXTStrings :
        \E r \in {AddTXT(db, fqdn, ttl, rdata)} :
            /\ db' = r.db
            /\ err' = r.err
            /\ ret' = <<>>
            /\ call' = [op |-> "AddTXT", fqdn |-> fqdn, ttl |-> ttl, rdata |-> rdata]
    /\ ncalls' = ncalls + 1
    /\ UNCHANGED run

TXTStep ==
    /\ ncalls < MaxTXTCalls
    /\ \E fqdn \in TXTFQDNs, ttl \in DefaultTTLs :
        \E r \in {TXT(db, fqdn, ttl)} :
            /\ db' = r.db
            /\ err' = r.err
            /\ ret' = r.ret
            /\ call' = [op |-> "TXT", fqdn |-> fqdn, ttl |-> ttl, rdata |-> <<>>]
    /\ ncalls' = ncalls + 1
    /\ UNCHANGED run

NextTXT ==
    \/ AddTXTStep
    \/ TXTStep

SpecTXT == Init /\ [][NextTXT]_vars

(* ---- C11 --------------------------------------------------------------- *)

\* the TXT strings of node i of database d, none for a node d does not have
TXTOf(d, i) == IF i \in 1..Len(d) THEN d[i].txtRDatas ELSE <<>>

HasTag(s, tag) ==
    /\ Len(s) > Len(tag)
    /\ ToLower(SubSeq(s, 1, Len(tag))) = tag
    /\ s[Len(tag) + 1] \in {" ", ";"}

SPF1Tag == <<"v", "=", "s", "p", "f", "1">>

DKIM1Tag == <<"v", "=", "d", "k", "i", "m", "1">>

Tagged(list, tag) == {k \in 1..Len(list) : HasTag(list[k], tag)}

\* C12: no TXT list holds two SPF1 strings or two DKIM1 strings, and AddTXT
\* of an SPF1 (DKIM1) string on a node that holds one fails and leaves the
\* list as it is.
C12_OneSPFOneDKIM ==
    [][/\ \A i \in NodeIds(db') : \A tag \in {SPF1Tag, DKIM1Tag} :
             Cardinality(Tagged(db'[i].txtRDatas, tag)) <= 1
       /\ \A i \in NodesAt(db, call'.fqdn) : \A tag \in {SPF1Tag, DKIM1Tag} :
             (/\ call'.op = "AddTXT"
              /\ HasTag(call'.rdata, tag)
              /\ Tagged(db[i].txtRDatas, tag) # {})
             => /\ err' # "nil"
                /\ db'[i].txtRDatas = db[i].txtRDatas]_vars

\* a second DKIM1 string was rejected on a node that holds an SPF1 string
\* and a DKIM1 string
C12_Witness ==
    /\ call.op = "AddTXT"
    /\ err = "rdata: DKIM already set"
    /\ \E i \in NodesAt(db, call.fqdn) :
          /\ Cardinality(Tagged(db[i].txtRDatas, SPF1Tag)) = 1
          /\ Cardinality(Tagged(db[i].txtRDatas, DKIM1Tag)) = 1

(* ---- zones: a node with two children, Records and Zone ----------------- *)

\* number of calls made in one behaviour of SpecZone
MaxZoneCalls == 4

fBA == <<"b", ".", "a", ".">>

fDA == <<"d", ".", "a", ".">>

ZoneFQDNs == {fA, fBA, fDA}

ZoneSetNS ==
    /\ ncalls < MaxZoneCalls
    /\ \E fqdn \in ZoneFQDNs, ttl \in {0}, rdatas \in {<<ns1, ns2>>} :
        \E r \in {SetNS(db, fqdn, ttl, rdatas)} :
            /\ db' = r.db
            /\ err' = r.err
            /\ ret' = <<>>
            /\ call' = [op |-> "SetNS", fqdn |-> fqdn, ttl |-> ttl, rdata |-> rdatas]
    /\ ncalls' = ncalls + 1
    /\ UNCHANGED run

ZoneSetMX ==
    /\ ncalls < MaxZoneCalls
    /\ \E fqdn \in ZoneFQDNs, ttl \in {300},
          rdatas \in {<<<<"1", " ", "n", ".">>, <<"2", " ", "m", ".">>>>} :
        \E r \in {SetMX(db, fqdn, ttl, rdatas)} :
            /\ db' = r.db
            /\ err' = r.err
            /\ ret' = <<>>
            /\ call' = [op |-> "SetMX", fqdn |-> fqdn, ttl |-> ttl, rdata |-> rdatas]
    /\ ncalls' = ncalls + 1
    /\ UNCHANGED run

ZoneAddTXT ==
    /\ ncalls < MaxZoneCalls
    /\ \E fqdn \in ZoneFQDNs, ttl \in {0}, rdata \in {<<"t">>} :
        \E r \in {AddTXT(db, fqdn, ttl, rdata)} :
            /\ db' = r.db
            /\ err' = r.err
            /\ ret' = <<>>
            /\ call' = [op |-> "AddTXT", fqdn |-> fqdn, ttl |-> ttl, rdata |-> rdata]
    /\ ncalls' = ncalls + 1
    /\ UNCHANGED run

ZoneSetCNAME ==
    /\ ncalls < MaxZoneCalls
    /\ \E fqdn \in ZoneFQDNs, ttl \in {300}, rdata \in {ns1} :
        \E r \in {SetCNAME(db, fqdn, ttl, rdata)} :
            /\ db' = r.db
            /\ err' = r.err
            /\ ret' = <<>>
            /\ call' = [op |-> "SetCNAME", fqdn |-> fqdn, ttl |-> ttl, rdata |-> rdata]
    /\ ncalls' = ncalls + 1
    /\ UNCHANGED run

ZoneSetA ==
    /\ ncalls < MaxZoneCalls
    /\ \E fqdn \in ZoneFQDNs, ttl \in {300}, rdatas \in {<<"192.0.2.1", "192.0.2.155">>} :
        \E r \in {SetA(db, fqdn, ttl, rdatas)} :
            /\ db' = r.db
            /\ err' = r.err
            /\ ret' = <<>>
            /\ call' = [op |-> "SetA", fqdn |-> fqdn, ttl |-> ttl, rdata |-> rdatas]
    /\ ncalls' = ncalls + 1
    /\ UNCHANGED run

ZoneSetAAAA ==
    /\ ncalls < MaxZoneCalls
    /\ \E fqdn \in ZoneFQDNs, ttl \in {300}, rdatas \in {<<"2001:db8::1", "2001:db8::cafe">>} :
        \E r \in {SetAAAA(db, fqdn, ttl, rdatas)} :
            /\ db' = r.db
            /\ err' = r.err
            /\ ret' = <<>>
            /\ call' = [op |-> "SetAAAA", fqdn |-> fqdn, ttl |-> ttl, rdata |-> rdatas]
    /\ ncalls' = ncalls + 1
    /\ UNCHANGED run

ZoneRecords ==
    /\ ncalls < MaxZoneCalls
    /\ \E fqdn \in ZoneFQDNs, ttl \in DefaultTTLs :
        \E r \in {Records(db, fqdn, ttl)} :
            /\ db' = r.db
            /\ err' = r.err
            /\ ret' = r.ret
            /\ call' = [op |-> "Records", fqdn |-> fqdn, ttl |-> ttl, rdata |-> <<>>]
    /\ ncalls' = ncalls + 1
    /\ UNCHANGED run

ZoneZone ==
    /\ ncalls < MaxZoneCalls
    /\ \E fqdn \in ZoneFQDNs, ttl \in DefaultTTLs :
        \E r \in Zone(db, fqdn, ttl) :
            /\ db' = r.db
            /\ err' = r.err
            /\ ret' = r.ret
            /\ call' = [op |-> "Zone", fqdn |-> fqdn, ttl |-> ttl, rdata |-> <<>>]
    /\ ncalls' = ncalls + 1
    /\ UNCHANGED run

NextZone ==
    \/ ZoneSetNS
    \/ ZoneSetMX
    \/ ZoneAddTXT
    \/ ZoneSetCNAME
    \/ ZoneSetA
    \/ ZoneSetAAAA
    \/ ZoneRecords
    \/ ZoneZone

SpecZone == Init /\ [][NextZone]_vars

(* ---- C14 --------------------------------------------------------------- *)

\* the elements of a sequence
Range(seq) == {seq[k] : k \in 1..Len(seq)}

\* the names of the nodes of d at or below FQDN f
NamesAtOrBelow(d, f) ==
    {d[j].fqdn : j \in {i \in NodeIds(d) : d[i].fqdn = f \/ StrictlyBelow(d[i].fqdn, f)}}

\* C14: Zone(f, d) on a name that has a node returns, each once, exactly the
\* records Records(g, d) returns for f and for the nodes g below f; only the
\* content of the store decides this set, not the order of the calls that
\* built it.
C14_ZoneIsUnionOfRecords ==
    [][(call'.op = "Zone" /\ NodesAt(db, call'.fqdn) # {})
       => /\ err' = "nil"
          /\ \A k, l \in 1..Len(ret') : ret'[k] = ret'[l] => k = l
          /\ Range(ret') = UNION {Range(Records(db, g, call'.ttl).ret) :
                                     g \in NamesAtOrBelow(db, call'.fqdn)}]_vars

\* Zone has returned records of the node it was asked for and of two nodes
\* below it
C14_Witness ==
    /\ call.op = "Zone"
    /\ err = "nil"
    /\ call.fqdn = fA
    /\ {ret[k].FQDN : k \in 1..Len(ret)} = {fA, fBA, fDA}

(* ---- C15 --------------------------------------------------------------- *)

TypeOrder == <<"NS", "MX", "TXT", "CNAME", "A", "AAAA">>

TypeIndex(t) == CHOOSE k \in 1..Len(TypeOrder) : TypeOrder[k] = t

\* the types node nd holds a payload of
TypesAt(nd) ==
    {t \in Range(TypeOrder) :
        \/ t = "NS" /\ Len(nd.nsRDatas) # 0
        \/ t = "MX" /\ Len(nd.mxRDatas) # 0
        \/ t = "TXT" /\ Len(nd.txtRDatas) # 0
        \/ t = "CNAME" /\ Len(nd.cnameRdata) # 0
        \/ t = "A" /\ Len(nd.aRDatas) # 0
        \/ t = "AAAA" /\ Len(nd.aaaaRDatas) # 0}

\* the rdata node nd holds for type t, as a getter returns it
RDatasAt(nd, t) ==
    CASE t = "NS" -> nd.nsRDatas
      [] t = "MX" -> nd.mxRDatas
      [] t = "TXT" -> [k \in 1..Len(nd.txtRDatas) |-> Quote(nd.txtRDatas[k])]
      [] t = "CNAME" -> <<nd.cnameRdata>>
      [] t = "A" -> nd.aRDatas
      [] t = "AAAA" -> nd.aaaaRDatas

\* C15: Records(f, d) on a name that has a node returns one record for every
\* type the node holds, with the node's name and rdata, in the order NS, MX,
\* TXT, CNAME, A, AAAA, and nothing else; on a name that has no node it
\* returns an error and no record.
C15_RecordsOfOneNode ==
    [][call'.op = "Records" =>
          /\ \A i \in NodesAt(db, call'.fqdn) :
                /\ err' = "nil"
                /\ {ret'[k].RType : k \in 1..Len(ret')} = TypesAt(db[i])
                /\ \A k \in 1..Len(ret') :
                      /\ ret'[k].FQDN = call'.fqdn
                      /\ ret'[k].RDatas = RDatasAt(db[i], ret'[k].RType)
                /\ \A k, l \in 1..Len(ret') :
                      k < l => TypeIndex(ret'[k].RType) < TypeIndex(ret'[l].RType)
          /\ NodesAt(db, call'.fqdn) = {} => (err' # "nil" /\ ret' = <<>>)]_vars

\* Records has returned two records of a node that has a child with a record
C15_Witness ==
    /\ call.op = "Records"
    /\ err = "nil"
    /\ Len(ret) = 2
    /\ \E i \in NodeIds(db) :
          StrictlyBelow(db[i].fqdn, call.fqdn) /\ TypesAt(db[i]) # {}

(* ---- C16 --------------------------------------------------------------- *)

\* in a result of Zone the records of a node stand before those of the nodes
\* below it
OwnBeforeDescendants(rs) ==
    \A k, l \in 1..Len(rs) : StrictlyBelow(rs[k].FQDN, rs[l].FQDN) => l < k

\* the step is a Zone call that repeats the Zone call before it
ZoneRepeated ==
    /\ call.op = "Zone" /\ call'.op = "Zone"
    /\ call'.fqdn = call.fqdn /\ call'.ttl = call.ttl
    /\ err = "nil"

\* C16 as the specification states it: Zone lists the records of a node
\* before those of its descendants, and a Zone call that repeats the one
\* before it, the store unchanged, returns the identical sequence.
C16_ZoneSequenceStable ==
    [][call'.op = "Zone" =>
          /\ OwnBeforeDescendants(ret')
          /\ ZoneRepeated => (err' = "nil" /\ ret' = ret)]_vars

\* C16, amended: Zone lists the records of a node before those of its
\* descendants, and a Zone call that repeats the one before it, the store
\* unchanged, returns the same records, each once; the order of the child
\* subtrees may differ from one call to the next.
C16_ZoneRecordsStable ==
    [][call'.op = "Zone" =>
          /\ OwnBeforeDescendants(ret')
          /\ ZoneRepeated => /\ err' = "nil"
                             /\ Len(ret') = Len(ret)
                             /\ Range(ret') = Range(ret)]_vars

\* Zone has returned a record of the node and, behind it, records of its two
\* children
C16_Witness ==
    /\ call.op = "Zone"
    /\ err = "nil"
    /\ Len(ret) >= 3
    /\ ret[1].FQDN = fA
    /\ {ret[k].FQDN : k \in 2..Len(ret)} = {fBA, fDA}

(* ---- C17 --------------------------------------------------------------- *)

QueryOps == {"NS", "MX", "TXT", "CNAME", "A", "AAAA", "Records", "Zone"}

\* some node that holds NS lies strictly above FQDN f
BelowDelegation(d, f) ==
    \E i \in NodeIds(d) : hasNS(d[i]) /\ StrictlyBelow(f, d[i].fqdn)

\* C17 as the specification states it: a query leaves the store as it is,
\* and a query on a valid FQDN that has no node fails with "FQDN not found".
C17_QueryOfMissingNodeNotFound ==
    [][call'.op \in QueryOps =>
          /\ db' = db
          /\ (IsValidFQDN(call'.fqdn) = "nil" /\ NodesAt(db, call'.fqdn) = {})
             => err' = "FQDN not found"]_vars

\* C17, amended: a query leaves the store as it is, nodes and payloads; a
\* query on a valid FQDN that has no node fails with "FQDN outside authority"
\* if a node above it holds NS and with "FQDN not found" otherwise, and
\* returns no record.
C17_QueriesLeaveStore ==
    [][call'.op \in QueryOps =>
          /\ db' = db
          /\ (IsValidFQDN(call'.fqdn) = "nil" /\ NodesAt(db, call'.fqdn) = {})
             => /\ ret' = <<>>
                /\ err' = IF BelowDelegation(db, call'.fqdn)
                          THEN "FQDN outside authority"
                          ELSE "FQDN not found"]_vars

\* a query of a name that has no node, in a store that has nodes, has
\* failed with "FQDN not found"
C17_Witness ==
    /\ call.op \in QueryOps
    /\ err = "FQDN not found"
    /\ NodeIds(db) # {}
    /\ NodesAt(db, call.fqdn) = {}

(* ---- arguments: duplicate rdata, extreme TTLs, letter case ------------- *)

\* number of calls made in one behaviour of SpecArgs
MaxArgsCalls == 2

\* b.a. with the first label in upper case
fBAUpper == <<"B", ".", "a", ".">>

ArgsFQDNs == {fBA, fBAUpper}

ArgsTTLs == {-1, 0, MaxTTL}

ArgsDefaultTTLs == {-1, 600}

\* a valid list and one that holds an entry twice
ArgsNSRDatas == {<<ns1, ns2>>, <<ns1, ns2, ns1>>}

ArgsARDatas == {<<"192.0.2.1", "192.0.2.155">>, <<"192.0.2.1", "192.0.2.1">>}

ArgsAAAARDatas == {<<"2001:db8::1", "2001:db8::cafe">>, <<"2001:db8::1", "2001:db8::1">>}

\* -1, 0, 2147483647, 2147483648 and 2147483650 in limbs
WideTTLs == {Limbs(-1), Limbs(0), Limbs(MaxTTL),
             [hi |-> 32768, lo |-> 0], [hi |-> 32768, lo |-> 2]}

ArgsSetNS ==
    /\ ncalls < MaxArgsCalls
    /\ \E fqdn \in ArgsFQDNs, ttl \in ArgsTTLs, rdatas \in ArgsNSRDatas :
        \E r \in {SetNS(db, fqdn, ttl, rdatas)} :
            /\ db' = r.db
            /\ err' = r.err
            /\ ret' = <<>>
            /\ call' = [op |-> "SetNS", fqdn |-> fqdn, ttl |-> ttl, rdata |-> rdatas]
    /\ ncalls' = ncalls + 1
    /\ UNCHANGED run

ArgsSetMX ==
    /\ ncalls < MaxArgsCalls
    /\ \E fqdn \in ArgsFQDNs, ttl \in ArgsTTLs, rdatas \in MXRDatas :
        \E r \in {SetMX(db, fqdn, ttl, rdatas)} :
            /\ db' = r.db
            /\ err' = r.err
            /\ ret' = <<>>
            /\ call' = [op |-> "SetMX", fqdn |-> fqdn, ttl |-> ttl, rdata |-> rdatas]
    /\ ncalls' = ncalls + 1
    /\ UNCHANGED run

ArgsAddTXT ==
    /\ ncalls < MaxArgsCalls
    /\ \E fqdn \in ArgsFQDNs, ttl \in ArgsTTLs, rdata \in {<<"t">>} :
        \E r \in {AddTXT(db, fqdn, ttl, rdata)} :
            /\ db' = r.db
            /\ err' = r.err
            /\ ret' = <<>>
            /\ call' = [op |-> "AddTXT", fqdn |-> fqdn, ttl |-> ttl, rdata |-> rdata]
    /\ ncalls' = ncalls + 1
    /\ UNCHANGED run

ArgsSetCNAME ==
    /\ ncalls < MaxArgsCalls
    /\ \E fqdn \in ArgsFQDNs, ttl \in ArgsTTLs, rdata \in {ns1} :
        \E r \in {SetCNAME(db, fqdn, ttl, rdata)} :
            /\ db' = r.db
            /\ err' = r.err
            /\ ret' = <<>>
            /\ call' = [op |-> "SetCNAME", fqdn |-> fqdn, ttl |-> ttl, rdata |-> rdata]
    /\ ncalls' = ncalls + 1
    /\ UNCHANGED run

ArgsSetA ==
    /\ ncalls < MaxArgsCalls
    /\ \E fqdn \in ArgsFQDNs, ttl \in ArgsTTLs, rdatas \in ArgsARDatas :
        \E r \in {SetA(db, fqdn, ttl, rdatas)} :
            /\ db' = r.db
            /\ err' = r.err
            /\ ret' = <<>>
            /\ call' = [op |-> "SetA", fqdn |-> fqdn, ttl |-> ttl, rdata |-> rdatas]
    /\ ncalls' = ncalls + 1
    /\ UNCHANGED run

ArgsSetAAAA ==
    /\ ncalls < MaxArgsCalls
    /\ \E fqdn \in ArgsFQDNs, ttl \in ArgsTTLs, rdatas \in ArgsAAAARDatas :
        \E r \in {SetAAAA(db, fqdn, ttl, rdatas)} :
            /\ db' = r.db
            /\ err' = r.err
            /\ ret' = <<>>
            /\ call' = [op |-> "SetAAAA", fqdn |-> fqdn, ttl |-> ttl, rdata |-> rdatas]
    /\ ncalls' = ncalls + 1
    /\ UNCHANGED run

ArgsNS ==
    /\ ncalls < MaxArgsCalls
    /\ \E fqdn \in ArgsFQDNs, ttl \in ArgsDefaultTTLs :
        \E r \in {NS(db, fqdn, ttl)} :
            /\ db' = r.db
            /\ err' = r.err
            /\ ret' = r.ret
            /\ call' = [op |-> "NS", fqdn |-> fqdn, ttl |-> ttl, rdata |-> <<>>]
    /\ ncalls' = ncalls + 1
    /\ UNCHANGED run

ArgsMX ==
    /\ ncalls < MaxArgsCalls
    /\ \E fqdn \in ArgsFQDNs, ttl \in ArgsDefaultTTLs :
        \E r \in {MX(db, fqdn, ttl)} :
            /\ db' = r.db
            /\ err' = r.err
            /\ ret' = r.ret
            /\ call' = [op |-> "MX", fqdn |-> fqdn, ttl |-> ttl, rdata |-> <<>>]
    /\ ncalls' = ncalls + 1
    /\ UNCHANGED run

ArgsTXT ==
    /\ ncalls < MaxArgsCalls
    /\ \E fqdn \in ArgsFQDNs, ttl \in ArgsDefaultTTLs :
        \E r \in {TXT(db, fqdn, ttl)} :
            /\ db' = r.db
            /\ err' = r.err
            /\ ret' = r.ret
            /\ call' = [op |-> "TXT", fqdn |-> fqdn, ttl |-> ttl, rdata |-> <<>>]
    /\ ncalls' = ncalls + 1
    /\ UNCHANGED run

ArgsCNAME ==
    /\ ncalls < MaxArgsCalls
    /\ \E fqdn \in ArgsFQDNs, ttl \in ArgsDefaultTTLs :
        \E r \in {CNAME(db, fqdn, ttl)} :
            /\ db' = r.db
            /\ err' = r.err
            /\ ret' = r.ret
            /\ call' = [op |-> "CNAME", fqdn |-> fqdn, ttl |-> ttl, rdata |-> <<>>]
    /\ ncalls' = ncalls + 1
    /\ UNCHANGED run

ArgsA ==
    /\ ncalls < MaxArgsCalls
    /\ \E fqdn \in ArgsFQDNs, ttl \in ArgsDefaultTTLs :
        \E r \in {A(db, fqdn, ttl)} :
            /\ db' = r.db
            /\ err' = r.err
            /\ ret' = r.ret
            /\ call' = [op |-> "A", fqdn |-> fqdn, ttl |-> ttl, rdata |-> <<>>]
    /\ ncalls' = ncalls + 1
    /\ UNCHANGED run

ArgsAAAA ==
    /\ ncalls < MaxArgsCalls
    /\ \E fqdn \in ArgsFQDNs, ttl \in ArgsDefaultTTLs :
        \E r \in {AAAA(db, fqdn, ttl)} :
            /\ db' = r.db
            /\ err' = r.err
            /\ ret' = r.ret
            /\ call' = [op |-> "AAAA", fqdn |-> fqdn, ttl |-> ttl, rdata |-> <<>>]
    /\ ncalls' = ncalls + 1
    /\ UNCHANGED run

ArgsRecords ==
    /\ ncalls < MaxArgsCalls
    /\ \E fqdn \in ArgsFQDNs, ttl \in ArgsDefaultTTLs :
        \E r \in {Records(db, fqdn, ttl)} :
            /\ db' = r.db
            /\ err' = r.err
            /\ ret' = r.ret
            /\ call' = [op |-> "Records", fqdn |-> fqdn, ttl |-> ttl, rdata |-> <<>>]
    /\ ncalls' = ncalls + 1
    /\ UNCHANGED run

ArgsZone ==
    /\ ncalls < MaxArgsCalls
    /\ \E fqdn \in ArgsFQDNs, ttl \in ArgsDefaultTTLs :
        \E r \in Zone(db, fqdn, ttl) :
            /\ db' = r.db
            /\ err' = r.err
            /\ ret' = r.ret
            /\ call' = [op |-> "Zone", fqdn |-> fqdn, ttl |-> ttl, rdata |-> <<>>]
    /\ ncalls' = ncalls + 1
    /\ UNCHANGED run

\* lib.IsValidTTL applied to an int in limbs, which call.rdata records
ArgsIsValidTTL ==
    /\ ncalls < MaxArgsCalls
    /\ \E t \in WideTTLs :
        /\ err' = IsValidTTLWide(t)
        /\ call' = [op |-> "IsValidTTL", fqdn |-> <<>>, ttl |-> 0, rdata |-> t]
    /\ ret' = <<>>
    /\ ncalls' = ncalls + 1
    /\ UNCHANGED run
    /\ UNCHANGED db

NextArgs ==
    \/ ArgsSetNS
    \/ ArgsSetMX
    \/ ArgsAddTXT
    \/ ArgsSetCNAME
    \/ ArgsSetA
    \/ ArgsSetAAAA
    \/ ArgsNS
    \/ ArgsMX
    \/ ArgsTXT
    \/ ArgsCNAME
    \/ ArgsA
    \/ ArgsAAAA
    \/ ArgsRecords
    \/ ArgsZone
    \/ ArgsIsValidTTL

SpecArgs == Init /\ [][NextArgs]_vars

(* ---- C13 --------------------------------------------------------------- *)

\* no entry of the list stands in it twice
Distinct(list) == \A k, l \in 1..Len(list) : list[k] = list[l] => k = l

\* the hostname of an MX entry: what follows its first space
MXHostname(e) ==
    LET sp == CHOOSE k \in 1..Len(e) : e[k] = " " /\ \A j \in 1..(k - 1) : e[j] # " "
    IN  SubSeq(e, sp + 1, Len(e))

MXHostnames(list) == [k \in 1..Len(list) |-> MXHostname(list[k])]

\* C13: no stored NS, A or AAAA list holds an entry twice and no stored MX
\* list names a hostname twice; SetNS, SetA and SetAAAA with a list that holds
\* an entry twice, and SetMX with a list that names a hostname twice, fail,
\* and the node keeps what it had.
C13_StoredRdataDistinct ==
    [][/\ \A i \in NodeIds(db') :
             /\ Distinct(db'[i].nsRDatas)
             /\ Distinct(db'[i].aRDatas)
             /\ Distinct(db'[i].aaaaRDatas)
             /\ Distinct(MXHostnames(db'[i].mxRDatas))
       /\ (\/ call'.op \in {"SetNS", "SetA", "SetAAAA"} /\ ~Distinct(call'.rdata)
           \/ call'.op = "SetMX" /\ ~Distinct(MXHostnames(call'.rdata)))
          => /\ err' # "nil"
             /\ \A i \in NodeIds(db) : Payload(db'[i]) = Payload(db[i])]_vars

\* SetMX was rejected for two entries of different preference that name one
\* hostname
C13_Witness ==
    /\ call.op = "SetMX"
    /\ err = "rdata: duplicate entry"
    /\ Distinct(call.rdata)
    /\ ~Distinct(MXHostnames(call.rdata))

(* ---- C18 --------------------------------------------------------------- *)

\* C18: every record a query returns has a TTL from 0 to 2147483647.
C18_RecordTTLInRange ==
    \A k \in 1..Len(ret) : ret[k].TTL >= 0 /\ ret[k].TTL <= MaxTTL

(* ---- C19 --------------------------------------------------------------- *)

\* the TTLs node nd stores
TTLsOf(nd) == {nd.nsTTL, nd.mxTTL, nd.txtTTL, nd.cnameTTL, nd.aTTL, nd.aaaaTTL}

\* C19: a setter called with a valid FQDN that is not below a delegation
\* fails with "invalid TTL" exactly when its TTL is below 0 or above
\* 2147483647; IsValidTTL rejects exactly the ints below 0 and above
\* 2147483647; and every TTL a node stores is from 0 to 2147483647.
C19_TTLWithinRange ==
    [][/\ (/\ call'.op \in SetterOps
           /\ IsValidFQDN(call'.fqdn) = "nil"
           /\ ~BelowDelegation(db, call'.fqdn))
          => (err' = "invalid TTL" <=> (call'.ttl < 0 \/ call'.ttl > MaxTTL))
       /\ call'.op = "IsValidTTL"
          => (err' = IF call'.rdata.hi < 0 \/ call'.rdata.hi > 32767
                     THEN "invalid TTL" ELSE "nil")
       /\ \A i \in NodeIds(db') : \A t \in TTLsOf(db'[i]) : t >= 0 /\ t <= MaxTTL]_vars

\* a setter has stored the TTL 2147483647
C19_Witness ==
    /\ call.op \in SetterOps
    /\ call.ttl = MaxTTL
    /\ err = "nil"
    /\ \E i \in NodesAt(db, call.fqdn) : MaxTTL \in TTLsOf(db[i])

(* ---- C20 --------------------------------------------------------------- *)

\* two FQDNs that differ in the case of their letters only
SameButCase(f, g) == f # g /\ ToLower(f) = ToLower(g)

\* C20: after a successful set-once setter on an FQDN, the same setter on an
\* FQDN that differs from it in letter case only fails with "already set",
\* and the type's getter on that FQDN returns the record that was set.
C20_CaseInsensitiveFQDN ==
    [][(/\ call.op \in SetOnceOps
        /\ err = "nil"
        /\ SameButCase(call.fqdn, call'.fqdn))
       => /\ (call'.op = call.op /\ call'.ttl >= 0)
             => err' = AlreadySet(call.op)
          /\ call'.op = GetterOf(call.op)
             => /\ err' = "nil"
                /\ Len(ret') = 1
                /\ ret'[1].RDatas = IF call.op = "SetCNAME" THEN <<call.rdata>>
                                     ELSE call.rdata]_vars

(* ---- C21 --------------------------------------------------------------- *)

\* C21: the root has no FQDN, no parent and no payload; every other node has
\* a parent in the store, stands in the child map of that parent under the
\* first label of its FQDN, and its FQDN is that label, a dot and the FQDN of
\* the parent.
C21_TrieWellFormed ==
    /\ db[RootNode].fqdn = <<>>
    /\ db[RootNode].parent = NilNode
    /\ Payload(db[RootNode]) = Payload(NewNode(<<>>, NilNode))
    /\ \A i \in NodeIds(db) :
          LET label == Labels(db[i].fqdn)[1]
              p == db[i].parent
          IN  /\ p \in 1..Len(db) /\ p # i
              /\ label \in DOMAIN db[p].children
              /\ db[p].children[label] = i
              /\ db[i].fqdn = label \o <<".">> \o db[p].fqdn

\* the store holds a node three labels deep, a node below it in each child
\* map on the way
C21_Witness ==
    /\ \E i \in NodeIds(db) : db[i].fqdn = fCBA /\ db[i].parent # RootNode
    /\ \E i \in NodeIds(db) : db[i].fqdn = fA /\ db[i].parent = RootNode

(* ---- the loader: directories and their loading ------------------------ *)

\* the calls of a run: one NewFromDirectory, then queries of the store
MaxLoadCalls == 2

NoDelegation == [TTL |-> 0, Nameservers |-> <<>>]

NoMail == [TTL |-> 0, Mailservers |-> <<>>]

NoTexts == [TTL |-> 0, Data |-> <<>>]

NoForwarding == [TTL |-> 0, Target |-> <<>>]

NoAddresses == [TTL |-> 0, Literals |-> <<>>]

\* a yamlName with no block
yamlName(name) ==
    [Name |-> name, Delegation |-> NoDelegation, Mail |-> NoMail, Texts |-> NoTexts,
     Forwarding |-> NoForwarding, Addresses |-> NoAddresses]

\* "@" with the texts " t\t" and "u"
nTxtTU == [yamlName(<<"@">>) EXCEPT !.Texts = [TTL |-> 0, Data |-> <<<<" ", "t", "\t">>, <<"u">>>>]]

\* "@" with the text "w"
nTxtW == [yamlName(<<"@">>) EXCEPT !.Texts = [TTL |-> 0, Data |-> <<<<"w">>>>]]

\* "@" with the texts "t " and "x": the first is the "t" of nTxtTU again
nTxtTX == [yamlName(<<"@">>) EXCEPT !.Texts = [TTL |-> 0, Data |-> <<<<"t", " ">>, <<"x">>>>]]

\* "c" forwarded to "n." and to "m."
nCnameN == [yamlName(<<"c">>) EXCEPT !.Forwarding = [TTL |-> 0, Target |-> <<" ">> \o ns1]]

nCnameM == [yamlName(<<"c">>) EXCEPT !.Forwarding = [TTL |-> 300, Target |-> ns2]]

\* "@" with IPv4 and IPv6 literals mixed
nAddr == [yamlName(<<"@">>) EXCEPT
             !.Addresses = [TTL |-> 300,
                            Literals |-> <<"192.0.2.1", "2001:db8::1", "192.0.2.155",
                                           "2001:db8::cafe">>]]

\* "c" with IPv6 literals only
nAddr6 == [yamlName(<<"c">>) EXCEPT
              !.Addresses = [TTL |-> 0, Literals |-> <<"2001:db8::cafe", "2001:db8::1">>]]

\* "@" with a literal that is no address after a literal that is one
nAddrBad == [yamlName(<<"@">>) EXCEPT
                !.Addresses = [TTL |-> 300, Literals |-> <<"192.0.2.1", "bogus">>]]

\* "c" with mail, texts and addresses
nMailTxtAddr ==
    [yamlName(<<"c">>) EXCEPT
        !.Mail = [TTL |-> 300,
                  Mailservers |-> <<[Mailserver |-> ns1 \o <<" ">>, Preference |-> 10],
                                    [Mailserver |-> ns2, Preference |-> 5]>>],
        !.Texts = [TTL |-> 300, Data |-> <<<<"y">>>>],
        !.Addresses = [TTL |-> 300, Literals |-> <<"2001:db8::1", "192.0.2.1">>]]

\* "c" delegated and with mail and texts: the store refuses the mail
nNsMailTxt ==
    [yamlName(<<"c">>) EXCEPT
        !.Delegation = [TTL |-> 300, Nameservers |-> <<ns1, <<" ">> \o ns2>>],
        !.Mail = [TTL |-> 300, Mailservers |-> <<[Mailserver |-> ns1, Preference |-> 10]>>],
        !.Texts = [TTL |-> 300, Data |-> <<<<"y">>>>]]

\* the absolute name "d.a." with a text
nAbsTxt == [yamlName(fDA) EXCEPT !.Texts = [TTL |-> 0, Data |-> <<<<"z">>>>]]

\* "c" with the text "x" and no TTL of its own
nTxtC == [yamlName(<<"c">>) EXCEPT !.Texts = [TTL |-> 0, Data |-> <<<<"x">>>>]]

\* the names of template "t", of template "u" and of the first zone
TNames == {<<>>, <<nTxtTU>>, <<nCnameN>>, <<nAddr, nAddr6>>, <<nMailTxtAddr, nTxtW>>,
           <<nAbsTxt, nTxtTU>>}

UNames == {<<nTxtW>>, <<nTxtTX>>, <<nCnameM>>, <<nNsMailTxt, nTxtW>>}

ZNames == {<<>>, <<nTxtW>>, <<nAddrBad, nTxtW>>, <<nCnameM, nAbsTxt>>}

\* the template lists of the first zone; there is no template "v"
ZTemplates == {<<>>, <<"t">>, <<"t", "u">>, <<"u", "t">>, <<"t", "v", "u">>}

yamlTemplate(template, names) == [Template |-> template, Names |-> names]

yamlZone(zone, templates, names) == [Zone |-> zone, Templates |-> templates, Names |-> names]

yamlFile(parses, templates, zones) == [parses |-> parses, Templates |-> templates, Zones |-> zones]

\* the first file: templates "t" and "u" and one zone
FirstFiles ==
    {yamlFile(TRUE, <<yamlTemplate("t", tn), yamlTemplate("u", un)>>, <<yamlZone(z, zt, zn)>>) :
        tn \in TNames, un \in UNames, zt \in ZTemplates, zn \in ZNames, z \in {fA, fBA}}

\* the second file, if any: one that does not parse, one with a second
\* template "t", one with an empty template no zone refers to, one with two
\* templates "w", one with a zone that pulls in template "t" of the first
\* file, one with the zone "a." again and a text at "c"
SecondFiles ==
    {yamlFile(FALSE, <<>>, <<>>),
     yamlFile(TRUE, <<yamlTemplate("t", <<nTxtW>>)>>, <<>>),
     yamlFile(TRUE, <<yamlTemplate("w", <<>>)>>, <<>>),
     yamlFile(TRUE, <<yamlTemplate("w", <<nTxtW>>), yamlTemplate("w", <<nTxtTU>>)>>, <<>>),
     yamlFile(TRUE, <<>>, <<yamlZone(fDA, <<"t">>, <<>>)>>),
     yamlFile(TRUE, <<>>, <<yamlZone(fA, <<>>, <<nTxtC>>)>>)}

Directories == {<<f>> : f \in FirstFiles} \cup {<<f, g>> : f \in FirstFiles, g \in SecondFiles}

LoadFQDNs == {fA, fBA, fCBA, fDA}

LoadCanQuery == ncalls \in 1..(MaxLoadCalls - 1) /\ db # NilDB

LoadNewFromDirectory ==
    /\ ncalls = 0
    /\ \E files \in Directories :
        \E r \in NewFromDirectory(files) :
            /\ db' = r.store
            /\ err' = r.err
            /\ ret' = r.calls
            /\ call' = [op |-> "NewFromDirectory", fqdn |-> <<>>, ttl |-> 0, rdata |-> files]
    /\ ncalls' = ncalls + 1
    /\ UNCHANGED run

LoadRecords ==
    /\ LoadCanQuery
    /\ \E fqdn \in LoadFQDNs, ttl \in DefaultTTLs :
        \E r \in {Records(db, fqdn, ttl)} :
            /\ db' = r.db
            /\ err' = r.err
            /\ ret' = r.ret
            /\ call' = [op |-> "Records", fqdn |-> fqdn, ttl |-> ttl, rdata |-> <<>>]
    /\ ncalls' = ncalls + 1
    /\ UNCHANGED run

LoadTXT ==
    /\ LoadCanQuery
    /\ \E fqdn \in LoadFQDNs, ttl \in DefaultTTLs :
        \E r \in {TXT(db, fqdn, ttl)} :
            /\ db' = r.db
            /\ err' = r.err
            /\ ret' = r.ret
            /\ call' = [op |-> "TXT", fqdn |-> fqdn, ttl |-> ttl, rdata |-> <<>>]
    /\ ncalls' = ncalls + 1
    /\ UNCHANGED run

\* the names and zones MakeFQDN is called with; "test" is a zone without
\* the final dot
MakeFQDNNames == {<<"@">>, <<"c">>, fDA, <<"@", ".">>, <<"c", ".", "b">>, <<>>}

MakeFQDNZones == {fA, fBA, <<"t", "e", "s", "t">>}

LoadMakeFQDN ==
    /\ ncalls < MaxLoadCalls
    /\ \E name \in MakeFQDNNames, zone \in MakeFQDNZones :
        /\ ret' = MakeFQDN(name, zone)
        /\ call' = [op |-> "MakeFQDN", fqdn |-> name, ttl |-> 0, rdata |-> zone]
    /\ err' = "nil"
    /\ db' = db
    /\ ncalls' = ncalls + 1
    /\ UNCHANGED run

NextLoad == LoadNewFromDirectory \/ LoadRecords \/ LoadTXT \/ LoadMakeFQDN

SpecLoad == Init /\ [][NextLoad]_vars

(* ---- C22 --------------------------------------------------------------- *)

RECURSIVE Concat(_)
Concat(seqs) == IF seqs = <<>> THEN <<>> ELSE Head(seqs) \o Concat(Tail(seqs))

\* a step of a load: a setter call, or a stop that is no call
Step(op, fqdn, ttl, rdata) == [op |-> op, fqdn |-> fqdn, ttl |-> ttl, rdata |-> rdata]

Stop(what) == Step(what, <<>>, 0, <<>>)

StopOps == {"template: not found", "invalid address"}

IsIPv4(l) == l \in IPv4Literals

IsIPv6(l) == l \in IPv6Literals

\* the FQDN a Name stands for under a zone
NameUnderZone(name, zone) ==
    IF name = <<"@">> THEN zone
    ELSE IF name # <<>> /\ name[Len(name)] = "." THEN name
    ELSE name \o <<".">> \o zone

\* the steps one Name asks for under a zone: its non-empty blocks in the
\* order delegation, mail, texts, forwarding, addresses
StepsOfName(name, zone) ==
    LET fqdn == NameUnderZone(name.Name, zone.Zone)
        nss == name.Delegation.Nameservers
        mxs == name.Mail.Mailservers
        txts == name.Texts.Data
        lits == name.Addresses.Literals
    IN  (IF nss = <<>> THEN <<>>
         ELSE <<Step("SetNS", fqdn, name.Delegation.TTL,
                     [i \in 1..Len(nss) |-> TrimSpace(nss[i])])>>)
        \o (IF mxs = <<>> THEN <<>>
            ELSE <<Step("SetMX", fqdn, name.Mail.TTL,
                        [i \in 1..Len(mxs) |->
                            Itoa(mxs[i].Preference) \o <<" ">> \o TrimSpace(mxs[i].Mailserver)])>>)
        \o [i \in 1..Len(txts) |-> Step("AddTXT", fqdn, name.Texts.TTL, TrimSpace(txts[i]))]
        \o (IF TrimSpace(name.Forwarding.Target) = <<>> THEN <<>>
            ELSE <<Step("SetCNAME", fqdn, name.Forwarding.TTL, TrimSpace(name.Forwarding.Target))>>)
        \o (IF \E i \in 1..Len(lits) : ~IsIPv4(lits[i]) /\ ~IsIPv6(lits[i])
            THEN <<Stop("invalid address")>>
            ELSE (IF \E i \in 1..Len(lits) : IsIPv4(lits[i])
                  THEN <<Step("SetA", fqdn, name.Addresses.TTL, SelectSeq(lits, IsIPv4))>>
                  ELSE <<>>)
                 \o (IF \E i \in 1..Len(lits) : IsIPv6(lits[i])
                     THEN <<Step("SetAAAA", fqdn, name.Addresses.TTL, SelectSeq(lits, IsIPv6))>>
                     ELSE <<>>))

StepsOfNames(names, zone) == Concat([i \in 1..Len(names) |-> StepsOfName(names[i], zone)])

\* the templates of all files
AllTemplates(files) == UNION {Range(files[k].Templates) : k \in 1..Len(files)}

\* the steps of one zone: its templates in declared order, then its own Names
StepsOfZone(files, zone) ==
    Concat([i \in 1..Len(zone.Templates) |->
               IF \E t \in AllTemplates(files) : t.Template = zone.Templates[i]
               THEN StepsOfNames((CHOOSE t \in AllTemplates(files) :
                                     t.Template = zone.Templates[i]).Names, zone)
               ELSE <<Stop("template: not found")>>])
    \o StepsOfNames(zone.Names, zone)

\* the steps of a directory, its zones taken file by file in order o
StepsOfDirectory(files, o) ==
    Concat([k \in 1..Len(files) |->
               Concat([z \in 1..Len(files[o[k]].Zones) |->
                          StepsOfZone(files, files[o[k]].Zones[z])])])

\* the errors of a load that ends before the first zone is visited
BeforeZonesErrors == {"file: parse error", "file: template: duplicate", "file: template: empty"}

CallAsStep(c) == Step(c.op, c.fqdn, c.ttl, c.rdata)

\* a load that got to the zones
Loaded == call.op = "NewFromDirectory" /\ err \notin BeforeZonesErrors

\* C22: the setter calls of a load are, for some order of the files, the
\* steps of the directory from the first on (zone by zone, the referenced
\* templates in declared order and then the zone's own Names, each Name's
\* non-empty blocks in the order delegation, mail, texts, forwarding,
\* addresses); every call but the last succeeded; the load ends without error
\* only after all steps, and otherwise ends at the first step that fails (a
\* setter that returns an error, an unknown template, a literal that is no
\* address), with no setter call after it.
C22_LoadReplaysInOrder ==
    Loaded =>
        \E o \in Orders(Len(call.rdata)) :
            LET plan == StepsOfDirectory(call.rdata, o)
                k == Len(ret)
            IN  /\ k <= Len(plan)
                /\ \A i \in 1..k : CallAsStep(ret[i]) = plan[i]
                /\ \A i \in 1..(k - 1) : ret[i].err = "nil"
                /\ \/ /\ err \in {"nil", "empty database"}
                      /\ k = Len(plan)
                      /\ k > 0 => ret[k].err = "nil"
                   \/ /\ err \notin {"nil", "empty database"}
                      /\ k > 0
                      /\ ret[k].err # "nil"
                   \/ /\ err \notin {"nil", "empty database"}
                      /\ k < Len(plan)
                      /\ plan[k + 1].op \in StopOps
                      /\ k > 0 => ret[k].err = "nil"

\* a load of a zone with two templates that ended at a setter error with
\* steps left over, after calls that had succeeded
C22_Witness ==
    /\ Loaded
    /\ Len(call.rdata[1].Zones[1].Templates) = 2
    /\ Len(ret) >= 3
    /\ ret[Len(ret)].err # "nil"
    /\ \E i, j \in 1..Len(ret) : ret[i].fqdn # ret[j].fqdn
    /\ \A o \in Orders(Len(call.rdata)) : Len(StepsOfDirectory(call.rdata, o)) > Len(ret)

(* ---- C23 --------------------------------------------------------------- *)

\* C23: NewFromDirectory returns either a store with at least one node below
\* the root and no error, or an error and no store; a file that does not
\* parse, a template that is missing, repeated or empty, a literal that is no
\* address and a setter call that fails each end in the second case, whatever
\* the setter calls before them have written.
C23_StoreOrError ==
    call.op = "NewFromDirectory" =>
        /\ \/ err = "nil" /\ db # NilDB /\ hasChildren(db[RootNode])
           \/ err # "nil" /\ db = NilDB
        /\ (\E k \in 1..Len(call.rdata) : ~call.rdata[k].parses) => err # "nil"
        /\ (\E i \in 1..Len(ret) : ret[i].err # "nil") => err # "nil"
        /\ (\E o \in Orders(Len(call.rdata)) :
               LET plan == StepsOfDirectory(call.rdata, o)
               IN  \E i \in 1..Len(plan) : plan[i].op \in StopOps)
           => err # "nil"

\* a load that failed at a setter call after setter calls that had written
\* to the store
C23_Witness ==
    /\ call.op = "NewFromDirectory"
    /\ Len(ret) >= 2
    /\ ret[1].err = "nil"
    /\ ret[Len(ret)].err # "nil"
    /\ err # "nil"
    /\ db = NilDB

(* ---- C24 --------------------------------------------------------------- *)

\* the strings of the AddTXT steps of a list of steps at FQDN f, in order
TXTStepsAt(steps, f) ==
    LET IsTXTAt(st) == st.op = "AddTXT" /\ st.fqdn = f
        sel == SelectSeq(steps, IsTXTAt)
    IN  [i \in 1..Len(sel) |-> sel[i].rdata]

\* the TXT strings store d holds at FQDN f
TXTAt(d, f) == IF NodesAt(d, f) = {} THEN <<>> ELSE TXTOf(d, CHOOSE i \in NodesAt(d, f) : TRUE)

\* f is g or lies below it
AtOrBelow(f, g) == f = g \/ StrictlyBelow(f, g)

\* the store has no reason of its own to refuse the AddTXT call calls[j]:
\* the string is not empty and not too long, the TTL is valid, no earlier
\* AddTXT call at the FQDN has the same string or another TTL or the tag
\* (SPF1, DKIM1) of this string, and no earlier call delegates the FQDN or a
\* name above it, or forwards the FQDN
StoreTakesTXT(calls, j) ==
    /\ Len(calls[j].rdata) \in 1..MaxTXTLen
    /\ IsValidFQDN(calls[j].fqdn) = "nil"
    /\ IsValidTTL(calls[j].ttl) = "nil"
    /\ \A i \in 1..(j - 1) :
          /\ (calls[i].op = "AddTXT" /\ calls[i].fqdn = calls[j].fqdn)
             => /\ calls[i].rdata # calls[j].rdata
                /\ calls[i].ttl = calls[j].ttl
                /\ ~(HasTag(calls[i].rdata, SPF1Tag) /\ HasTag(calls[j].rdata, SPF1Tag))
                /\ ~(HasTag(calls[i].rdata, DKIM1Tag) /\ HasTag(calls[j].rdata, DKIM1Tag))
          /\ calls[i].op = "SetNS" => ~AtOrBelow(calls[j].fqdn, calls[i].fqdn)
          /\ calls[i].op = "SetCNAME" => calls[i].fqdn # calls[j].fqdn

C24_SecondCNAME ==
    /\ call.op = "NewFromDirectory"
    /\ call.rdata[1].Zones[1].Templates = <<"t", "u">>
    /\ Len(ret) = 2
    /\ ret[1].op = "SetCNAME" /\ ret[2].op = "SetCNAME"
    /\ err = "file: template: zone: name: load forwarding: CNAME record already set"

(* ---- C25 --------------------------------------------------------------- *)

\* the places of the templates of the files: file and index in the file
TemplatePlaces(files) ==
    UNION {{<<k, i>> : i \in 1..Len(files[k].Templates)} : k \in 1..Len(files)}

TemplateAt(files, p) == files[p[1]].Templates[p[2]]

RepeatedTemplate(files) ==
    \E p, q \in TemplatePlaces(files) :
        p # q /\ TemplateAt(files, p).Template = TemplateAt(files, q).Template

EmptyTemplate(files) == \E p \in TemplatePlaces(files) : TemplateAt(files, p).Names = <<>>

\* the names of the templates the zones of the files refer to
ReferredTemplates(files) ==
    UNION {UNION {Range(files[k].Zones[z].Templates) : z \in 1..Len(files[k].Zones)} :
              k \in 1..Len(files)}

AllParse(files) == \A k \in 1..Len(files) : files[k].parses

\* C25: when two templates of the files, of one file or of two, have the same
\* name, or a template has no Names, referred to by a zone or not, the load
\* makes no setter call and returns an error and no store; when all files
\* parse the error is that of the templates: "duplicate" when only the first
\* is the case, "empty" when only the second.
C25_RepeatedOrEmptyTemplateFails ==
    (call.op = "NewFromDirectory" /\ (RepeatedTemplate(call.rdata) \/ EmptyTemplate(call.rdata)))
    => /\ err # "nil"
       /\ db = NilDB
       /\ ret = <<>>
       /\ AllParse(call.rdata) =>
             /\ err \in {"file: template: duplicate", "file: template: empty"}
             /\ ~EmptyTemplate(call.rdata) => err = "file: template: duplicate"
             /\ ~RepeatedTemplate(call.rdata) => err = "file: template: empty"

\* a load that failed for the empty template of the second file, which no
\* zone refers to, while the zone of the first file has templates and Names
\* the store would take
C25_Witness ==
    /\ call.op = "NewFromDirectory"
    /\ err = "file: template: empty"
    /\ Len(call.rdata) = 2
    /\ ~EmptyTemplate(<<call.rdata[1]>>)
    /\ \E p \in TemplatePlaces(call.rdata) :
          /\ TemplateAt(call.rdata, p).Names = <<>>
          /\ TemplateAt(call.rdata, p).Template \notin ReferredTemplates(call.rdata)
    /\ call.rdata[1].Zones[1].Templates = <<"t", "u">>
    /\ db = NilDB

\* a load that failed for a template of the second file that has the name
\* of one of the first
C25_RepeatedAcrossFiles ==
    /\ call.op = "NewFromDirectory"
    /\ err = "file: template: duplicate"
    /\ Len(call.rdata) = 2
    /\ ~RepeatedTemplate(<<call.rdata[1]>>) /\ ~RepeatedTemplate(<<call.rdata[2]>>)
    /\ db = NilDB

(* ---- C26 --------------------------------------------------------------- *)

\* the Names replayed for a zone: those of its templates and its own
NamesOfZone(files, zone) ==
    UNION {Range(t.Names) : t \in {u \in AllTemplates(files) : u.Template \in Range(zone.Templates)}}
    \cup Range(zone.Names)

AllZones(files) == UNION {Range(files[k].Zones) : k \in 1..Len(files)}

fCDA == <<"c", ".", "d", ".", "a", ".">>

\* C26: MakeFQDN returns the zone for the name "@", the name as it is when
\* it ends in a dot, and otherwise the name, a dot and the zone; after a load
\* without error the store has a node at the FQDN this gives for every Name
\* of every zone and of each template the zone pulls in, so that a template
\* pulled into two zones gives nodes under each of them.
C26_NameUnderZone ==
    /\ call.op = "MakeFQDN" =>
          /\ call.fqdn = <<"@">> => ret = call.rdata
          /\ (call.fqdn # <<"@">> /\ call.fqdn # <<>> /\ call.fqdn[Len(call.fqdn)] = ".")
             => ret = call.fqdn
          /\ (call.fqdn # <<"@">> /\ (call.fqdn = <<>> \/ call.fqdn[Len(call.fqdn)] # "."))
             => ret = call.fqdn \o <<".">> \o call.rdata
    /\ (call.op = "NewFromDirectory" /\ err = "nil") =>
          \A zone \in AllZones(call.rdata) :
              \A name \in NamesOfZone(call.rdata, zone) :
                  NodesAt(db, NameUnderZone(name.Name, zone.Zone)) # {}

\* a load without error of two zones, b.a. and d.a., that pull in the same
\* template with the Names "@" and "c": the four nodes hold its addresses
C26_Witness ==
    /\ call.op = "NewFromDirectory"
    /\ err = "nil"
    /\ {z.Zone : z \in AllZones(call.rdata)} = {fBA, fDA}
    /\ \A z \in AllZones(call.rdata) : "t" \in Range(z.Templates)
    /\ \A f \in {fBA, fDA} : \E i \in NodesAt(db, f) : Len(db[i].aRDatas) = 2
    /\ \A f \in {fCBA, fCDA} : \E i \in NodesAt(db, f) : Len(db[i].aaaaRDatas) = 2

\* a load without error that wrote the text of the absolute Name d.a. of a
\* template of the zone b.a.
C26_AbsoluteName ==
    /\ call.op = "NewFromDirectory"
    /\ err = "nil"
    /\ {z.Zone : z \in AllZones(call.rdata)} = {fBA}
    /\ TXTAt(db, fDA) = <<<<"z">>>>

(* ---- C27 --------------------------------------------------------------- *)

InvalidAddressErrors ==
    {"file: zone: name: load addresses: invalid address",
     "file: template: zone: name: load addresses: invalid address"}

AddressOps == {"SetA", "SetAAAA"}

\* the A and AAAA lists and TTLs store d holds at FQDN f
AddressesAt(d, f) ==
    LET nd == d[CHOOSE i \in NodesAt(d, f) : TRUE]
    IN  [a |-> nd.aRDatas, aTTL |-> nd.aTTL, aaaa |-> nd.aaaaRDatas, aaaaTTL |-> nd.aaaaTTL]

\* C27: every literal of a block of addresses is an IPv4 or an IPv6 literal
\* and not both, or the load ends with "invalid address" at that block, all
\* calls before it having succeeded and none of them being a call for the
\* literals of the block; SetA is called with the IPv4 literals of the block
\* in their order and SetAAAA with the IPv6 literals in theirs, each with the
\* TTL of the block and never with an empty list; after a load without error
\* the node of a Name with addresses holds exactly these two lists.
C27_AddressesPartitioned ==
    Loaded =>
        /\ \A i \in 1..Len(ret) :
              /\ ret[i].op = "SetA" => ret[i].rdata # <<>> /\ Range(ret[i].rdata) \subseteq IPv4Literals
              /\ ret[i].op = "SetAAAA" => ret[i].rdata # <<>> /\ Range(ret[i].rdata) \subseteq IPv6Literals
        /\ \E o \in Orders(Len(call.rdata)) :
              LET plan == StepsOfDirectory(call.rdata, o)
                  k == Len(ret)
              IN  /\ \A i \in 1..k : ret[i].op \in AddressOps =>
                         (i <= Len(plan) /\ CallAsStep(ret[i]) = plan[i])
                  /\ err \in InvalidAddressErrors <=>
                         /\ k < Len(plan)
                         /\ \A i \in 1..k : i <= Len(plan) /\ CallAsStep(ret[i]) = plan[i]
                         /\ \A i \in 1..k : ret[i].err = "nil"
                         /\ plan[k + 1].op = "invalid address"
        /\ err = "nil" =>
              \A zone \in AllZones(call.rdata) :
                  \A name \in NamesOfZone(call.rdata, zone) :
                      LET lits == name.Addresses.Literals
                          at == AddressesAt(db, NameUnderZone(name.Name, zone.Zone))
                      IN  lits # <<>> =>
                             /\ \A i \in 1..Len(lits) : IsIPv4(lits[i]) # IsIPv6(lits[i])
                             /\ at.a = SelectSeq(lits, IsIPv4)
                             /\ at.aaaa = SelectSeq(lits, IsIPv6)
                             /\ at.aTTL = IF at.a = <<>> THEN 0 ELSE name.Addresses.TTL
                             /\ at.aaaaTTL = IF at.aaaa = <<>> THEN 0 ELSE name.Addresses.TTL

\* a load without error of a Name with IPv4 and IPv6 literals mixed, 300 the
\* TTL of the block, and of a Name with IPv6 literals only
C27_Witness ==
    /\ call.op = "NewFromDirectory"
    /\ err = "nil"
    /\ AllZones(call.rdata) # {}
    /\ \A z \in AllZones(call.rdata) : z.Zone = fBA
    /\ NodesAt(db, fBA) # {} /\ NodesAt(db, fCBA) # {}
    /\ AddressesAt(db, fBA) = [a |-> <<"192.0.2.1", "192.0.2.155">>, aTTL |-> 300,
                               aaaa |-> <<"2001:db8::1", "2001:db8::cafe">>, aaaaTTL |-> 300]
    /\ AddressesAt(db, fCBA) = [a |-> <<>>, aTTL |-> 0,
                                aaaa |-> <<"2001:db8::cafe", "2001:db8::1">>, aaaaTTL |-> 0]

\* a load that ended with "invalid address" at a block whose first literal
\* is an IPv4 literal, after calls that had succeeded
C27_InvalidAddress ==
    /\ call.op = "NewFromDirectory"
    /\ err \in InvalidAddressErrors
    /\ Len(ret) >= 2
    /\ \A i \in 1..Len(ret) : ret[i].op \notin AddressOps

(* ---- slices shared between the caller and the store -------------------- *)

\* A Go slice is a view of an array. SetNS and SetA store the slice they are
\* given (nd.nsRDatas = rdatas), and ns and a put the node's slice into the
\* Record (RDatas: nd.nsRDatas): the caller's slice, the node's list and the
\* Record's RDatas are then views of one array, and an assignment to an
\* element through one of them is seen through the others. txt builds a new
\* slice for its Record.

MaxAliasCalls == 3

AliasFQDNs == {fA, fBA}

\* the strings a caller assigns to an element of a slice it holds
AliasValues == {ns2, <<"x">>}

\* the list of a node a slice of the caller shares its array with
SharedList(op) == IF op \in {"SetNS", "NS"} THEN "nsRDatas" ELSE "aRDatas"

AliasSetNS ==
    /\ ncalls < MaxAliasCalls
    /\ \E fqdn \in AliasFQDNs, ttl \in {0}, rdatas \in {<<ns1, ns2>>, <<ns1>>} :
        \E r \in {SetNS(db, fqdn, ttl, rdatas)} :
            /\ db' = r.db
            /\ err' = r.err
            /\ ret' = <<>>
            /\ call' = [op |-> "SetNS", fqdn |-> fqdn, ttl |-> ttl, rdata |-> rdatas]
    /\ ncalls' = ncalls + 1
    /\ UNCHANGED run

AliasSetA ==
    /\ ncalls < MaxAliasCalls
    /\ \E fqdn \in AliasFQDNs, ttl \in {0}, rdatas \in {<<"192.0.2.1", "192.0.2.155">>} :
        \E r \in {SetA(db, fqdn, ttl, rdatas)} :
            /\ db' = r.db
            /\ err' = r.err
            /\ ret' = <<>>
            /\ call' = [op |-> "SetA", fqdn |-> fqdn, ttl |-> ttl, rdata |-> rdatas]
    /\ ncalls' = ncalls + 1
    /\ UNCHANGED run

AliasAddTXT ==
    /\ ncalls < MaxAliasCalls
    /\ \E fqdn \in AliasFQDNs, ttl \in {0}, rdata \in {<<"t">>} :
        \E r \in {AddTXT(db, fqdn, ttl, rdata)} :
            /\ db' = r.db
            /\ err' = r.err
            /\ ret' = <<>>
            /\ call' = [op |-> "AddTXT", fqdn |-> fqdn, ttl |-> ttl, rdata |-> rdata]
    /\ ncalls' = ncalls + 1
    /\ UNCHANGED run

AliasNS ==
    /\ ncalls < MaxAliasCalls
    /\ \E fqdn \in AliasFQDNs, ttl \in DefaultTTLs :
        \E r \in {NS(db, fqdn, ttl)} :
            /\ db' = r.db
            /\ err' = r.err
            /\ ret' = r.ret
            /\ call' = [op |-> "NS", fqdn |-> fqdn, ttl |-> ttl, rdata |-> <<>>]
    /\ ncalls' = ncalls + 1
    /\ UNCHANGED run

AliasA ==
    /\ ncalls < MaxAliasCalls
    /\ \E fqdn \in AliasFQDNs, ttl \in DefaultTTLs :
        \E r \in {A(db, fqdn, ttl)} :
            /\ db' = r.db
            /\ err' = r.err
            /\ ret' = r.ret
            /\ call' = [op |-> "A", fqdn |-> fqdn, ttl |-> ttl, rdata |-> <<>>]
    /\ ncalls' = ncalls + 1
    /\ UNCHANGED run

AliasTXT ==
    /\ ncalls < MaxAliasCalls
    /\ \E fqdn \in AliasFQDNs, ttl \in DefaultTTLs :
        \E r \in {TXT(db, fqdn, ttl)} :
            /\ db' = r.db
            /\ err' = r.err
            /\ ret' = r.ret
            /\ call' = [op |-> "TXT", fqdn |-> fqdn, ttl |-> ttl, rdata |-> <<>>]
    /\ ncalls' = ncalls + 1
    /\ UNCHANGED run

\* the caller assigns rdatas[k] = v to the slice it has just passed to SetNS
\* or SetA, which returned no error and so stored that slice in the node
AliasWriteArgument ==
    /\ ncalls < MaxAliasCalls
    /\ call.op \in {"SetNS", "SetA"}
    /\ err = "nil"
    /\ \E k \in 1..Len(call.rdata), v \in AliasValues, i \in NodesAt(db, call.fqdn) :
        /\ db' = IF SharedList(call.op) = "nsRDatas"
                 THEN [db EXCEPT ![i].nsRDatas[k] = v]
                 ELSE [db EXCEPT ![i].aRDatas[k] = v]
        /\ call' = [op |-> "WriteArgument", fqdn |-> call.fqdn, ttl |-> call.ttl,
                    rdata |-> [call.rdata EXCEPT ![k] = v]]
    /\ UNCHANGED <<err, ret>>
    /\ ncalls' = ncalls + 1
    /\ UNCHANGED run

\* the caller assigns record.RDatas[k] = v to the Record NS, A or TXT has
\* just returned: the RDatas of NS and A are the node's slice, those of TXT
\* a slice of their own
AliasWriteRecord ==
    /\ ncalls < MaxAliasCalls
    /\ call.op \in {"NS", "A", "TXT"}
    /\ err = "nil"
    /\ \E k \in 1..Len(ret[1].RDatas), v \in AliasValues, i \in NodesAt(db, call.fqdn) :
        /\ db' = IF call.op = "TXT" THEN db
                 ELSE IF SharedList(call.op) = "nsRDatas"
                 THEN [db EXCEPT ![i].nsRDatas[k] = v]
                 ELSE [db EXCEPT ![i].aRDatas[k] = v]
        /\ ret' = [ret EXCEPT ![1].RDatas[k] = v]
        /\ call' = [op |-> "WriteRecord", fqdn |-> call.fqdn, ttl |-> call.ttl,
                    rdata |-> <<>>]
    /\ UNCHANGED err
    /\ ncalls' = ncalls + 1
    /\ UNCHANGED run

NextAlias ==
    \/ AliasSetNS \/ AliasSetA \/ AliasAddTXT
    \/ AliasNS \/ AliasA \/ AliasTXT
    \/ AliasWriteArgument \/ AliasWriteRecord

SpecAlias == Init /\ [][NextAlias]_vars

(* ---- C28 --------------------------------------------------------------- *)

\* C28: when the caller changes an element of the rdata slice it passed to a
\* setter, or of the RDatas of a Record a getter returned, the records
\* of the FQDN are afterwards what they were before.
C28_RecordDetached ==
    [][call'.op \in {"WriteArgument", "WriteRecord"}
       => Records(db', call'.fqdn, 600).ret = Records(db, call'.fqdn, 600).ret]_vars

\* the part of C28 that holds: a change of the RDatas of a Record returned
\* by TXT leaves the store as it is
C28_TXTRecordDetached ==
    [][(call.op = "TXT" /\ call'.op = "WriteRecord") => db' = db]_vars

(* ---- the commands rrpush and mzcreate ---------------------------------- *)

\* A run is the record
\*   [tool, pc, dryRun, delay, zones, remote, i, now, shown, requests, skipped]:
\* the flags dry-run and delay (in ticks of the clock), config.ManagedZones,
\* the DNS names of the managed zones Cloud DNS lists, the index of the zone
\* the loop is at, the clock, the time at which the change of that zone was
\* logged, and the requests to Cloud DNS that write (Changes.Create,
\* ManagedZones.Create), each with the zone and the time it was sent at,
\* and the number of times "skipping action! (dry run)" was logged.

\* the longest list of managed zones in a configuration
MaxPushZones == 2

\* the clock stops here
MaxNow == 4

PushZoneNames == {fA, fBA}

PushZoneLists == UNION {[1..n -> PushZoneNames] : n \in 0..MaxPushZones}

\* "-1s", "0s" and "2s"
PushDelays == {-1, 0, 2}

\* what the local database and Cloud DNS hold for a zone that Cloud DNS
\* lists: db.Zone fails, ResourceRecordSets.List fails, the change is empty
\* after RemoveDuplicatesFromChange, or it is not
PushOutcomes == {"no records", "list failed", "nothing to change", "change"}

startRun(tool, dryRun, delay, zones, remote) ==
    [tool |-> tool, pc |-> IF Len(zones) = 0 THEN "done" ELSE "zone",
     dryRun |-> dryRun, delay |-> delay, zones |-> zones, remote |-> remote,
     i |-> 1, now |-> 0, shown |-> 0, requests |-> <<>>, skipped |-> 0]

\* continue: the loop goes to the next managed zone
continue(r) ==
    [r EXCEPT !.i = @ + 1, !.pc = IF r.i + 1 > Len(r.zones) THEN "done" ELSE "zone"]

\* rrpush from the top of the loop body to the log of the change
rrpushZone(r, outcome) ==
    IF r.zones[r.i] \notin r.remote THEN continue(r)
    ELSE IF outcome # "change" THEN continue(r)
    ELSE [r EXCEPT !.pc = "delay", !.shown = r.now]

\* variant of rrpushDelay that does not sleep
rrpushDelay_NoSleep(r) == [r EXCEPT !.pc = "dry-run"]

\* enforcing deployment delay: time.Sleep returns when the delay has passed
rrpushDelay(r) ==
    IF r.delay > 0 THEN [r EXCEPT !.pc = "dry-run", !.now = @ + r.delay]
    ELSE [r EXCEPT !.pc = "dry-run"]

\* variant of rrpushDryRun that goes on to the request whatever the flag
rrpushDryRun_Ignored(r) == [r EXCEPT !.pc = "create"]

\* back out if this is a dry-run
rrpushDryRun(r) ==
    IF r.dryRun THEN continue([r EXCEPT !.skipped = @ + 1])
    ELSE [r EXCEPT !.pc = "create"]

Request(kind, r) == [kind |-> kind, zone |-> r.zones[r.i], at |-> r.now, shown |-> r.shown]

\* uploading the change: Changes.Create is sent.  What comes back, and the
\* polling of the change, is left open here: the zone's turn ends.  They are
\* the steps rrpushRequest and rrpushPoll of the runs with their answers.
rrpushCreate(r) == continue([r EXCEPT !.requests = Append(@, Request("Changes.Create", r))])

\* variant of mzcreateZone that creates the zone whatever the flag
mzcreateZone_Ignored(r) ==
    IF r.zones[r.i] \in r.remote THEN continue(r)
    ELSE continue([r EXCEPT !.requests = Append(@, Request("ManagedZones.Create", r))])

\* the loop body of mzcreate
mzcreateZone(r) ==
    IF r.zones[r.i] \in r.remote THEN continue(r)
    ELSE IF r.dryRun THEN continue([r EXCEPT !.skipped = @ + 1])
    ELSE continue([r EXCEPT !.requests = Append(@, Request("ManagedZones.Create", r))])

PushStartRrpush ==
    /\ run = NoRun
    /\ \E dryRun \in BOOLEAN, delay \in PushDelays, zones \in PushZoneLists,
          remote \in SUBSET PushZoneNames :
        run' = startRun("rrpush", dryRun, delay, zones, remote)
    /\ UNCHANGED <<db, call, err, ret, ncalls>>

PushStartMzcreate ==
    /\ run = NoRun
    /\ \E dryRun \in BOOLEAN, zones \in PushZoneLists, remote \in SUBSET PushZoneNames :
        run' = startRun("mzcreate", dryRun, 0, zones, remote)
    /\ UNCHANGED <<db, call, err, ret, ncalls>>

PushRrpushZone ==
    /\ run.tool = "rrpush" /\ run.pc = "zone"
    /\ \E outcome \in PushOutcomes : run' = rrpushZone(run, outcome)
    /\ UNCHANGED <<db, call, err, ret, ncalls>>

PushRrpushDelay ==
    /\ run.tool = "rrpush" /\ run.pc = "delay"
    /\ run' = rrpushDelay(run)
    /\ UNCHANGED <<db, call, err, ret, ncalls>>

PushRrpushDryRun ==
    /\ run.tool = "rrpush" /\ run.pc = "dry-run"
    /\ run' = rrpushDryRun(run)
    /\ UNCHANGED <<db, call, err, ret, ncalls>>

PushRrpushCreate ==
    /\ run.tool = "rrpush" /\ run.pc = "create"
    /\ run' = rrpushCreate(run)
    /\ UNCHANGED <<db, call, err, ret, ncalls>>

PushMzcreateZone ==
    /\ run.tool = "mzcreate" /\ run.pc = "zone"
    /\ run' = mzcreateZone(run)
    /\ UNCHANGED <<db, call, err, ret, ncalls>>

\* time passes while a command runs
PushTick ==
    /\ run.tool # "none" /\ run.pc # "done"
    /\ run.now < MaxNow
    /\ run' = [run EXCEPT !.now = @ + 1]
    /\ UNCHANGED <<db, call, err, ret, ncalls>>

NextPush ==
    \/ PushStartRrpush \/ PushStartMzcreate
    \/ PushRrpushZone \/ PushRrpushDelay \/ PushRrpushDryRun \/ PushRrpushCreate
    \/ PushMzcreateZone
    \/ PushTick

SpecPush == Init /\ [][NextPush]_vars

(* ---- C29 --------------------------------------------------------------- *)

\* C29: a run with dry-run set sends no Changes.Create and no
\* ManagedZones.Create, whatever the configuration and whatever Cloud DNS
\* holds; a Changes.Create of rrpush is sent for a zone no earlier than the
\* delay after its change was logged.
C29_DryRunSendsNothing ==
    run.tool # "none" =>
        /\ run.dryRun => run.requests = <<>>
        /\ \A k \in 1..Len(run.requests) :
              run.requests[k].kind = "Changes.Create"
              => run.requests[k].at >= run.requests[k].shown + run.delay

\* a run of rrpush with dry-run and the delay of 2 ticks that has come to its
\* end and has backed out of the changes of two zones
C29_Witness ==
    /\ run.tool = "rrpush"
    /\ run.dryRun
    /\ run.delay = 2
    /\ run.pc = "done"
    /\ run.skipped = 2
    /\ run.now >= 4

\* a run of mzcreate with dry-run that has come to its end and has backed
\* out of the creation of two zones
C29_MzcreateDryRun ==
    /\ run.tool = "mzcreate"
    /\ run.dryRun
    /\ run.pc = "done"
    /\ run.skipped = 2

\* a run of rrpush without dry-run and with the delay of 2 ticks that has
\* sent the changes of two zones
C29_SentAfterDelay ==
    /\ run.tool = "rrpush"
    /\ ~run.dryRun
    /\ run.delay = 2
    /\ Len(run.requests) = 2
    /\ run.requests[2].shown > 0

(* ---- the changes sent to Cloud DNS -------------------------------------- *)

\* A change is [Deletions, Additions], two lists of resource record sets
\* [Kind, Name, Type, Ttl, Rrdatas]; Kind, Name and Type are strings.

\* the nil *ResourceRecordSet
NilRR == [nil |-> TRUE]

\* fmt.Sprintf("%v|%v|%v|%v", record.Kind, record.Name, record.Type, record.Ttl)
recordID(record) ==
    record.Kind \o <<"|">> \o record.Name \o <<"|">> \o record.Type \o <<"|">> \o Itoa(record.Ttl)

removeNilPointersFromRRS(in) ==
    LET NotNil(item) == item # NilRR
    IN  SelectSeq(in, NotNil)

\* delIdxs[id] after the first loop: the index of the last deletion with the id
delIdx(deletions, id) ==
    LET idxs == {i \in 1..Len(deletions) : recordID(deletions[i]) = id}
    IN  IF idxs = {} THEN 0 ELSE CHOOSE i \in idxs : \A j \in idxs : j <= i

\* the second loop from change.Additions[idx] on
RECURSIVE removePairs(_, _, _, _)
removePairs(original, deletions, additions, idx) ==
    IF idx > Len(additions) THEN [Deletions |-> deletions, Additions |-> additions]
    ELSE LET d == delIdx(original, recordID(additions[idx]))
         IN  IF \/ d = 0
                \/ deletions[d] = NilRR
                \/ additions[idx] = NilRR
                \/ deletions[d].Rrdatas # additions[idx].Rrdatas
             THEN removePairs(original, deletions, additions, idx + 1)
             ELSE removePairs(original, [deletions EXCEPT ![d] = NilRR],
                              [additions EXCEPT ![idx] = NilRR], idx + 1)

\* variant of RemoveDuplicatesFromChange that removes the additions only
RemoveDuplicatesFromChange_KeepsDeletions(change) ==
    [Deletions |-> change.Deletions,
     Additions |-> removeNilPointersFromRRS(
                       removePairs(change.Deletions, change.Deletions, change.Additions, 1).Additions)]

RemoveDuplicatesFromChange(change) ==
    CHOOSE x \in {[Deletions |-> removeNilPointersFromRRS(r.Deletions),
                   Additions |-> removeNilPointersFromRRS(r.Additions)] :
                     r \in {removePairs(change.Deletions, change.Deletions,
                                        change.Additions, 1)}} : TRUE

\* the longest list of a change
MaxChangeLen == 2

\* stands for "dns#resourceRecordSet"
rrsKind == <<"r", "r", "s">>

rrsA1 == [Kind |-> rrsKind, Name |-> fA, Type |-> <<"A">>, Ttl |-> 300,
          Rrdatas |-> <<"192.0.2.1">>]

\* rrsA1 with another address
rrsA2 == [rrsA1 EXCEPT !.Rrdatas = <<"192.0.2.155">>]

\* rrsA1 with another TTL
rrsA3 == [rrsA1 EXCEPT !.Ttl = 60]

rrsB == [Kind |-> rrsKind, Name |-> fBA, Type |-> <<"A">>, Ttl |-> 300,
         Rrdatas |-> <<"192.0.2.1">>]

\* two sets whose Names and Types differ and whose IDs are the same string
rrsBar1 == [rrsA1 EXCEPT !.Name = <<"x", "|", "y">>, !.Type = <<"A">>]

rrsBar2 == [rrsA1 EXCEPT !.Name = <<"x">>, !.Type = <<"y", "|", "A">>]

RRSets == {rrsA1, rrsA2, rrsA3, rrsB, rrsBar1, rrsBar2}

RRSetLists == UNION {[1..n -> RRSets] : n \in 0..MaxChangeLen}

ChangeRemoveDuplicates ==
    /\ ncalls = 0
    /\ \E deletions \in RRSetLists, additions \in RRSetLists :
        \E change \in {[Deletions |-> deletions, Additions |-> additions]} :
            /\ ret' = RemoveDuplicatesFromChange(change)
            /\ call' = [op |-> "RemoveDuplicatesFromChange", fqdn |-> <<>>, ttl |-> 0,
                        rdata |-> change]
    /\ err' = "nil"
    /\ db' = db
    /\ ncalls' = ncalls + 1
    /\ UNCHANGED run

NextChange == ChangeRemoveDuplicates

SpecChange == Init /\ [][NextChange]_vars

(* ---- C30 --------------------------------------------------------------- *)

\* how often x stands in list
Count(list, x) == Cardinality({i \in 1..Len(list) : list[i] = x})

\* what is left of the two lists is what was there, less as many additions
\* as deletions of each resource record set
RemovedInPairs(in, out) ==
    \A x \in RRSets :
        /\ Count(out.Additions, x) <= Count(in.Additions, x)
        /\ Count(out.Deletions, x) <= Count(in.Deletions, x)
        /\ Count(in.Additions, x) - Count(out.Additions, x)
           = Count(in.Deletions, x) - Count(out.Deletions, x)

NoPairLeft(out) == Range(out.Additions) \cap Range(out.Deletions) = {}

\* C30: RemoveDuplicatesFromChange removes as many additions as deletions of
\* each resource record set (Kind, Name, Type, Ttl and Rrdatas the same) and
\* nothing else, and no resource record set is left among both the additions
\* and the deletions.
C30_RemovesIdenticalPairs ==
    call.op = "RemoveDuplicatesFromChange" =>
        /\ RemovedInPairs(call.rdata, ret)
        /\ NoPairLeft(ret)

\* the IDs of the sets of a change tell their Kind, Name, Type and Ttl apart,
\* and no two deletions and no two additions have the same ID
PlainChange(change) ==
    /\ \A x, y \in Range(change.Deletions) \cup Range(change.Additions) :
          recordID(x) = recordID(y) => [x EXCEPT !.Rrdatas = <<>>] = [y EXCEPT !.Rrdatas = <<>>]
    /\ \A i, j \in 1..Len(change.Deletions) :
          recordID(change.Deletions[i]) = recordID(change.Deletions[j]) => i = j
    /\ \A i, j \in 1..Len(change.Additions) :
          recordID(change.Additions[i]) = recordID(change.Additions[j]) => i = j

\* the part of C30 that holds: for a change whose deletions have IDs of their
\* own, and its additions too, as those of rrpush have
C30_PlainChange ==
    (call.op = "RemoveDuplicatesFromChange" /\ PlainChange(call.rdata)) =>
        /\ RemovedInPairs(call.rdata, ret)
        /\ NoPairLeft(ret)

\* a plain change of which a pair was removed and a deletion and an addition
\* with the ID of the pair, or with its Rrdatas, are left
C30_PlainWitness ==
    /\ call.op = "RemoveDuplicatesFromChange"
    /\ PlainChange(call.rdata)
    /\ Len(call.rdata.Deletions) = 2 /\ Len(call.rdata.Additions) = 2
    /\ Len(ret.Deletions) = 1 /\ Len(ret.Additions) = 1

(* ---- the record sets rrpush may delete ---------------------------------- *)

tNS == <<"N", "S">>

tMX == <<"M", "X">>

tTXT == <<"T", "X", "T">>

tCNAME == <<"C", "N", "A", "M", "E">>

tA == <<"A">>

tAAAA == <<"A", "A", "A", "A">>

\* a type dns-tools does not manage
tSOA == <<"S", "O", "A">>

\* stands for "dns#foobar", a Kind that is not "dns#resourceRecordSet"
foobarKind == <<"f">>

\* variant of FilterRRSets without the check for the zone's own NS set
FilterRRSets_KeepsZoneNS(rrsets, fqdn) ==
    LET keep(rr) ==
            /\ rr.Kind = rrsKind
            /\ rr.Type \in {tNS, tMX, tTXT, tCNAME, tA, tAAAA}
    IN  SelectSeq(rrsets, keep)

\* the loop appends rr unless one of the two continue statements is taken or
\* the type is none of the six
FilterRRSets(rrsets, fqdn) ==
    LET keep(rr) ==
            /\ ~(rr.Kind # rrsKind)
            /\ ~(rr.Type = tNS /\ rr.Name = fqdn)
            /\ \/ rr.Type = tNS \/ rr.Type = tMX \/ rr.Type = tTXT \/ rr.Type = tCNAME
               \/ rr.Type = tA \/ rr.Type = tAAAA
    IN  SelectSeq(rrsets, keep)

\* the Type field of the record set made of a record of type rtype
TypeChars(rtype) ==
    CASE rtype = "NS" -> tNS
      [] rtype = "MX" -> tMX
      [] rtype = "TXT" -> tTXT
      [] rtype = "CNAME" -> tCNAME
      [] rtype = "A" -> tA
      [] rtype = "AAAA" -> tAAAA

RRDBRecordsToCloudDNSRecords(in) ==
    [k \in 1..Len(in) |->
        [Kind |-> rrsKind, Name |-> in[k].FQDN, Type |-> TypeChars(in[k].RType),
         Ttl |-> in[k].TTL, Rrdatas |-> in[k].RDatas]]

\* the change rrpush makes of a zone's listing and of the zone's records
rrpushChange(rrsets, wanted, fqdn) ==
    RemoveDuplicatesFromChange(
        [Deletions |-> FilterRRSets(rrsets, fqdn),
         Additions |-> RRDBRecordsToCloudDNSRecords(wanted)])

\* the longest listing of a zone
MaxFilterLen == 2

\* the record sets of a listing: both kinds, the six types and one more, the
\* zone's name and a name below it
ListedSets ==
    {[Kind |-> k, Name |-> n, Type |-> t, Ttl |-> 300, Rrdatas |-> <<"192.0.2.1">>] :
        k \in {rrsKind, foobarKind},
        n \in {fA, fBA},
        t \in {tNS, tMX, tTXT, tCNAME, tA, tAAAA, tSOA}}

Listings == UNION {[1..n -> ListedSets] : n \in 0..MaxFilterLen}

\* what db.Zone may give for the zone: nothing, the zone's NS, the record of
\* a listed set, the same with another address
WantedRecords ==
    {<<>>,
     <<Record(fA, "NS", 300, <<"192.0.2.1">>)>>,
     <<Record(fBA, "A", 300, <<"192.0.2.1">>)>>,
     <<Record(fBA, "A", 300, <<"192.0.2.155">>)>>}

FilterFilterRRSets ==
    /\ ncalls = 0
    /\ \E rrsets \in Listings, fqdn \in {fA, fBA} :
        /\ ret' = FilterRRSets(rrsets, fqdn)
        /\ call' = [op |-> "FilterRRSets", fqdn |-> fqdn, ttl |-> 0, rdata |-> rrsets]
    /\ err' = "nil"
    /\ db' = db
    /\ ncalls' = ncalls + 1
    /\ UNCHANGED run

FilterRrpushChange ==
    /\ ncalls = 0
    /\ \E rrsets \in Listings, wanted \in WantedRecords, fqdn \in {fA, fBA} :
        /\ ret' = rrpushChange(rrsets, wanted, fqdn)
        /\ call' = [op |-> "rrpushChange", fqdn |-> fqdn, ttl |-> 0,
                    rdata |-> [Rrsets |-> rrsets, Records |-> wanted]]
    /\ err' = "nil"
    /\ db' = db
    /\ ncalls' = ncalls + 1
    /\ UNCHANGED run

NextFilter ==
    \/ FilterFilterRRSets
    \/ FilterRrpushChange

SpecFilter == Init /\ [][NextFilter]_vars

(* ---- C31 --------------------------------------------------------------- *)

\* rr is a set dns-tools manages in the zone fqdn
Managed(rr, fqdn) ==
    /\ rr.Kind = rrsKind
    /\ rr.Type \in {tNS, tMX, tTXT, tCNAME, tA, tAAAA}
    /\ ~(rr.Type = tNS /\ rr.Name = fqdn)

\* out is the list of the members of in at the places idx, in their order
SubListAt(in, idx, out) ==
    /\ Len(out) = Cardinality(idx)
    /\ \A i \in idx : out[Cardinality({j \in idx : j <= i})] = in[i]

\* C31: FilterRRSets returns, in the order of the input, the input record
\* sets of Kind dns#resourceRecordSet and of type NS, MX, TXT, CNAME, A or
\* AAAA, but for an NS set with the name of the zone; and the deletions of the
\* change rrpush builds hold no NS set with the name of the zone.
C31_FilterKeepsManagedSets ==
    /\ call.op = "FilterRRSets" =>
          SubListAt(call.rdata, {i \in 1..Len(call.rdata) : Managed(call.rdata[i], call.fqdn)}, ret)
    /\ call.op = "rrpushChange" =>
          \A k \in 1..Len(ret.Deletions) :
              ~(ret.Deletions[k].Type = tNS /\ ret.Deletions[k].Name = call.fqdn)

\* a listing with the zone's NS set before a set of the zone that is kept
C31_Witness ==
    /\ call.op = "FilterRRSets"
    /\ Len(call.rdata) = 2 /\ Len(ret) = 1
    /\ call.rdata[1].Kind = rrsKind /\ call.rdata[1].Type = tNS
    /\ call.rdata[1].Name = call.fqdn
    /\ ret[1] = call.rdata[2]

\* a change of rrpush for a listing with the zone's NS set, with a deletion
C31_RrpushWitness ==
    /\ call.op = "rrpushChange"
    /\ \E k \in 1..Len(call.rdata.Rrsets) :
          /\ call.rdata.Rrsets[k].Kind = rrsKind
          /\ call.rdata.Rrsets[k].Type = tNS
          /\ call.rdata.Rrsets[k].Name = call.fqdn
    /\ Len(ret.Deletions) = 1

(* ---- the comparison of resource record data ----------------------------- *)

\* seen is a map[string]int: a function whose domain is the set of its keys

\* seen[rdata]++ for the members of x from x[i] on; a missing key counts zero
RECURSIVE countUp(_, _, _)
countUp(seen, x, i) ==
    IF i > Len(x) THEN seen
    ELSE countUp([k \in DOMAIN seen \cup {x[i]} |->
                     IF k = x[i]
                     THEN (IF k \in DOMAIN seen THEN seen[k] ELSE 0) + 1
                     ELSE seen[k]],
                 x, i + 1)

\* the second loop from y[i] on: [ok, seen], ok FALSE when it returned false
RECURSIVE countDown(_, _, _)
countDown(seen, y, i) ==
    IF i > Len(y) THEN [ok |-> TRUE, seen |-> seen]
    ELSE IF y[i] \notin DOMAIN seen THEN [ok |-> FALSE, seen |-> seen]
    ELSE countDown([seen EXCEPT ![y[i]] = @ - 1], y, i + 1)

\* variant of RDatasEqual without the last loop, over the counts
RDatasEqual_NoCounts(x, y) ==
    IF Len(x) # Len(y) THEN FALSE
    ELSE countDown(countUp(<<>>, x, 1), y, 1).ok

RDatasEqual(x, y) ==
    IF Len(x) # Len(y) THEN FALSE
    ELSE LET r == countDown(countUp(<<>>, x, 1), y, 1)
         IN  IF ~r.ok THEN FALSE
             ELSE IF \E k \in DOMAIN r.seen : r.seen[k] # 0 THEN FALSE
             ELSE TRUE

\* the longest list compared
MaxEqualLen == 3

\* the resource record data compared: "bar", "foo bar", "foo.bar.com."
EqualValues == {"bar", "foo bar", "foo.bar.com."}

EqualLists == UNION {[1..n -> EqualValues] : n \in 0..MaxEqualLen}

EqualRDatasEqual ==
    /\ ncalls = 0
    /\ \E x \in EqualLists, y \in EqualLists :
        /\ ret' = RDatasEqual(x, y)
        /\ call' = [op |-> "RDatasEqual", fqdn |-> <<>>, ttl |-> 0,
                    rdata |-> [a |-> x, b |-> y]]
    /\ err' = "nil"
    /\ db' = db
    /\ ncalls' = ncalls + 1
    /\ UNCHANGED run

NextEqual == EqualRDatasEqual

SpecEqual == Init /\ [][NextEqual]_vars

(* ---- C32 --------------------------------------------------------------- *)

\* x and y hold the same strings, each as often in x as in y
SameMultiset(x, y) ==
    \A v \in Range(x) \cup Range(y) : Count(x, v) = Count(y, v)

\* C32: RDatasEqual(a, b) is true exactly when every string stands as often
\* in a as in b, whatever the order, and RDatasEqual(b, a) gives the same.
C32_EqualAsMultisets ==
    call.op = "RDatasEqual" =>
        /\ ret = SameMultiset(call.rdata.a, call.rdata.b)
        /\ ret = RDatasEqual(call.rdata.b, call.rdata.a)

\* two lists in different orders, one string twice, found equal
C32_Witness ==
    /\ call.op = "RDatasEqual"
    /\ ret = TRUE
    /\ Len(call.rdata.a) = 3
    /\ call.rdata.a # call.rdata.b
    /\ Cardinality(Range(call.rdata.a)) = 2

\* two lists of the same strings and the same length, found different
C32_SameStringsOtherCounts ==
    /\ call.op = "RDatasEqual"
    /\ ret = FALSE
    /\ Len(call.rdata.a) = Len(call.rdata.b)
    /\ Range(call.rdata.a) = Range(call.rdata.b)

(* ---- the configuration -------------------------------------------------- *)

\* A configuration is [Defaults, ManagedZones], Defaults a TTL and
\* ManagedZones a list of [FQDN, TTL]; a TTL is a Go int, written in limbs.
\* A file is [state, Config]: state is "unreadable", "broken"
\* (yaml.UnmarshalStrict fails) or "parsed", and Config the configuration
\* a parsed file holds.

NilConfig == [nil |-> TRUE]

\* regexHostname of package config: no label begins with an underscore
configRegexHostname(s) ==
    /\ Len(s) >= 1
    /\ s[Len(s)] = "."
    /\ \A i \in 1..Len(Split(SubSeq(s, 1, Len(s) - 1), ".")) :
          LabelMatches(Split(SubSeq(s, 1, Len(s) - 1), ".")[i], FALSE)

checkFQDN(fqdn) ==
    IF ~configRegexHostname(fqdn) THEN "invalid FQDN" ELSE "nil"

\* lib.IsValidTTL, then the zero that stands for the default
checkTTL(ttl) ==
    IF IsValidTTLWide(ttl) # "nil" THEN IsValidTTLWide(ttl)
    ELSE IF ttl = Limbs(0) THEN "invalid TTL"
    ELSE "nil"

\* mz.TTL after "if mz.TTL == 0 { mz.TTL = config.Defaults.TTL }"
withDefault(mz, defaults) ==
    IF mz.TTL = Limbs(0) THEN [mz EXCEPT !.TTL = defaults] ELSE mz

\* the loop over config.ManagedZones from idx on; seen is the set of the
\* keys of the map
RECURSIVE checkZones(_, _, _, _)
checkZones(config, seen, idx, duplicates) ==
    IF idx > Len(config.ManagedZones) THEN [config |-> config, err |-> "nil"]
    ELSE CHOOSE x \in
        {IF checkFQDN(mz.FQDN) # "nil"
            THEN [config |-> NilConfig, err |-> "managed zone: " \o checkFQDN(mz.FQDN)]
         ELSE IF checkTTL(mz.TTL) # "nil"
            THEN [config |-> NilConfig, err |-> "managed zone: " \o checkTTL(mz.TTL)]
         ELSE IF duplicates /\ mz.FQDN \in seen
            THEN [config |-> NilConfig, err |-> "managed zone: duplicate entry"]
         ELSE checkZones([config EXCEPT !.ManagedZones[idx] = mz],
                         seen \cup {mz.FQDN}, idx + 1, duplicates) :
            mz \in {withDefault(config.ManagedZones[idx], config.Defaults)}} : TRUE

\* variant of configNew without the check for duplicate zones
configNew_NoDuplicateCheck(file) ==
    IF file.state = "unreadable" THEN [config |-> NilConfig, err |-> "read error"]
    ELSE IF file.state = "broken" THEN [config |-> NilConfig, err |-> "parse error"]
    ELSE IF checkTTL(file.Config.Defaults) # "nil"
        THEN [config |-> NilConfig, err |-> "defaults: " \o checkTTL(file.Config.Defaults)]
    ELSE checkZones(file.Config, {}, 1, FALSE)

configNew(file) ==
    IF file.state = "unreadable" THEN [config |-> NilConfig, err |-> "read error"]
    ELSE IF file.state = "broken" THEN [config |-> NilConfig, err |-> "parse error"]
    ELSE IF checkTTL(file.Config.Defaults) # "nil"
        THEN [config |-> NilConfig, err |-> "defaults: " \o checkTTL(file.Config.Defaults)]
    ELSE checkZones(file.Config, {}, 1, TRUE)

\* the most managed zones of a configuration
MaxConfigZones == 2

\* the TTLs of the tests: -1, 0, 1, 300, 2147483647, 2147483648
ConfigTTLs ==
    {Limbs(-1), Limbs(0), Limbs(1), Limbs(300), Limbs(MaxTTL),
     [hi |-> 32768, lo |-> 0]}

\* a name without the final dot
fNoDot == <<"a">>

\* a name lib.IsValidFQDN accepts and checkFQDN does not
fUnderscore == <<"_", "b", ".", "a", ".">>

ConfigFQDNs == {fA, fBA, fNoDot, fUnderscore}

ConfigZones == [FQDN : ConfigFQDNs, TTL : ConfigTTLs]

ConfigFiles ==
    {[state |-> st, Config |-> NilConfig] : st \in {"unreadable", "broken"}} \cup
    {[state |-> "parsed", Config |-> [Defaults |-> d, ManagedZones |-> zs]] :
        d \in ConfigTTLs,
        zs \in UNION {[1..n -> ConfigZones] : n \in 0..MaxConfigZones}}

ConfigNew ==
    /\ ncalls = 0
    /\ \E file \in ConfigFiles :
        \E r \in {configNew(file)} :
            /\ ret' = r.config
            /\ err' = r.err
            /\ call' = [op |-> "config.New", fqdn |-> <<>>, ttl |-> 0, rdata |-> file]
    /\ db' = db
    /\ ncalls' = ncalls + 1
    /\ UNCHANGED run

NextConfig == ConfigNew

SpecConfig == Init /\ [][NextConfig]_vars

(* ---- C33 --------------------------------------------------------------- *)

\* 1 <= ttl <= 2147483647
TTLInRange(ttl) == ~LimbsLess(ttl, Limbs(1)) /\ ~LimbsLess(Limbs(MaxTTL), ttl)

\* the configuration is one config.New accepts, as the claim has it
GoodConfig(config) ==
    /\ TTLInRange(config.Defaults)
    /\ \A i \in 1..Len(config.ManagedZones) :
          /\ configRegexHostname(config.ManagedZones[i].FQDN)
          /\ \A j \in 1..(i - 1) : config.ManagedZones[j].FQDN # config.ManagedZones[i].FQDN
          /\ TTLInRange(IF config.ManagedZones[i].TTL = Limbs(0) THEN config.Defaults
                        ELSE config.ManagedZones[i].TTL)

\* C33: config.New returns a configuration, and no error, exactly when the
\* file is read and parsed, the default TTL is in [1, 2147483647], and every
\* managed zone has a valid FQDN that no earlier zone has and a TTL in that
\* range once a TTL of 0 is the default TTL; else it returns an error and no
\* configuration.
C33_ConfigOnlyIfValid ==
    call.op = "config.New" =>
        LET good == call.rdata.state = "parsed" /\ GoodConfig(call.rdata.Config)
        IN  /\ good <=> (err = "nil")
            /\ (err = "nil") <=> (ret # NilConfig)
            /\ ret # NilConfig =>
                  \A i \in 1..Len(ret.ManagedZones) : TTLInRange(ret.ManagedZones[i].TTL)

\* a configuration of two zones, one of which takes the default TTL
C33_Witness ==
    /\ call.op = "config.New"
    /\ err = "nil"
    /\ Len(ret.ManagedZones) = 2
    /\ call.rdata.Config.ManagedZones[2].TTL = Limbs(0)
    /\ ret.ManagedZones[2].TTL = Limbs(300)
    /\ ret.ManagedZones[1].TTL = Limbs(1)

\* the second zone has the FQDN of the first
C33_DuplicateZone ==
    /\ call.op = "config.New"
    /\ err = "managed zone: duplicate entry"
    /\ ret = NilConfig

(* ---- C34 --------------------------------------------------------------- *)

\* what a store holds, whatever the order in which its nodes were made: the
\* nodes without their places in the store
StoreView(d) ==
    {[d[k] EXCEPT !.children = <<>>, !.parent = NilNode] : k \in 1..Len(d)}

\* C34: whatever the order of the files, NewFromDirectory of a directory
\* either succeeds or fails, and the stores it returns hold the same.
C34_OrderIndependent ==
    call.op = "NewFromDirectory" =>
        \A r \in NewFromDirectory(call.rdata) :
            /\ (r.err = "nil") <=> (err = "nil")
            /\ err = "nil" => StoreView(r.store) = StoreView(db)

\* a load that succeeded and fails with the files in another order
C34_OrderDecidesSuccess ==
    /\ call.op = "NewFromDirectory"
    /\ err = "nil"
    /\ \E r \in NewFromDirectory(call.rdata) : r.err # "nil"

\* a load that succeeds in every order, with texts in the order of the files
C34_OrderDecidesTexts ==
    /\ call.op = "NewFromDirectory"
    /\ err = "nil"
    /\ \A r \in NewFromDirectory(call.rdata) : r.err = "nil"
    /\ \E r \in NewFromDirectory(call.rdata) : StoreView(r.store) # StoreView(db)

(* ---- C35 --------------------------------------------------------------- *)

\* the record type a setter writes
SetterType(op) == IF op = "AddTXT" THEN "TXT" ELSE GetterOf(op)

\* what node nd stores for record type t
TypePayload(nd, t) ==
    CASE t = "NS" -> <<nd.nsRDatas, nd.nsTTL>>
      [] t = "MX" -> <<nd.mxRDatas, nd.mxTTL>>
      [] t = "TXT" -> <<nd.txtRDatas, nd.txtTTL, nd.txtSPF1, nd.txtDKIM1>>
      [] t = "CNAME" -> <<nd.cnameRdata, nd.cnameTTL>>
      [] t = "A" -> <<nd.aRDatas, nd.aTTL>>
      [] t = "AAAA" -> <<nd.aaaaRDatas, nd.aaaaTTL>>

\* C35: a setter of type T that succeeds at FQDN f leaves every payload as it
\* was but the payload of type T of the node of f; the nodes it creates hold
\* nothing else; and on a fresh store the node of f holds type T afterwards
\* and no node holds anything else.
C35_SetterWritesOnePayload ==
    [][(call'.op \in SetterOps /\ err' = "nil")
       => /\ Len(db') >= Len(db)
          /\ \A i \in 1..Len(db'), t \in Range(TypeOrder) :
                (i \in NodesAt(db', call'.fqdn) /\ t = SetterType(call'.op))
                \/ TypePayload(db'[i], t)
                     = TypePayload(IF i <= Len(db) THEN db[i] ELSE NewNode(<<>>, NilNode), t)
          /\ db = New =>
                \A i \in 1..Len(db') :
                    TypesAt(db'[i]) = IF i \in NodesAt(db', call'.fqdn)
                                      THEN {SetterType(call'.op)} ELSE {}]_vars

\* a later setter has succeeded at a node that held another type
C35_Witness ==
    /\ ncalls >= 2
    /\ call.op \in SetterOps
    /\ err = "nil"
    /\ \E i \in NodesAt(db, call.fqdn) : Cardinality(TypesAt(db[i])) >= 2

\* the first setter of a run has succeeded at c.b.a. and made three nodes
C35_FreshWitness ==
    /\ ncalls = 1
    /\ call.op \in SetterOps
    /\ err = "nil"
    /\ Len(db) = 4
    /\ \E i \in NodesAt(db, call.fqdn) : TypesAt(db[i]) = {SetterType(call.op)}

(* ---- C36 --------------------------------------------------------------- *)

\* no node on the way down to f, f's own node apart, holds NS
NoNSAbove(d, f) ==
    ~\E i \in NodeIds(d) : hasNS(d[i]) /\ StrictlyBelow(f, d[i].fqdn)

\* C36: a setter at a name with no NS above it is not refused as outside
\* authority and leaves a node for the name, whatever other records the nodes
\* above hold; a query of a node with no NS above it finds the node; and
\* SetCNAME with a valid TTL and target succeeds on a node that holds nothing
\* and has children.
C36_OnlyNSCuts ==
    [][/\ (call'.op \in SetterOps /\ NoNSAbove(db, call'.fqdn))
          => /\ err' # "FQDN outside authority"
             /\ NodesAt(db', call'.fqdn) # {}
       /\ (call'.op \in QueryOps /\ NoNSAbove(db, call'.fqdn) /\ NodesAt(db, call'.fqdn) # {})
          => err' \notin {"FQDN outside authority", "FQDN not found"}
       /\ (/\ call'.op = "SetCNAME"
           /\ IsValidTTL(call'.ttl) = "nil"
           /\ IsValidFQDN(call'.rdata) = "nil"
           /\ \E i \in NodesAt(db, call'.fqdn) : TypesAt(db[i]) = {} /\ hasChildren(db[i]))
          => err' = "nil"]_vars

\* the record types the node of f's parent a. holds
TypesAbove(d) == UNION {TypesAt(d[i]) : i \in NodesAt(d, fA)}

\* a setter has succeeded at b.a. while a. holds a CNAME record
C36_Witness ==
    /\ call.op \in SetterOps
    /\ call.fqdn = fBA
    /\ err = "nil"
    /\ TypesAbove(db) = {"CNAME"}

\* a query of b.a. has answered while a. holds records of two types
C36_QueryWitness ==
    /\ call.op \in QueryOps
    /\ call.fqdn = fBA
    /\ err = "nil"
    /\ Len(ret) > 0
    /\ Cardinality(TypesAbove(db)) >= 2

\* SetCNAME has succeeded at a. after a. had a child
C36_CNAMEAboveChildren ==
    /\ call.op = "SetCNAME"
    /\ call.fqdn = fA
    /\ err = "nil"
    /\ NodesAt(db, fBA) # {}

(* ---- malformed MX records ----------------------------------------------- *)

\* the longest rdata list of a SetMX call
MaxMXLen == 2

mxGood == <<"1", " ", "n", ".">>

\* preferences below 0 and above 65535
mxNegative == <<"-", "1", " ", "n", ".">>

mxTooLarge == <<"6", "5", "5", "3", "6", " ", "n", ".">>

\* 2^63, which ParseInt does not take
mxOverflow == MinInt64Digits \o <<" ", "n", ".">>

\* a preference that is no number, and none at all
mxNoNumber == <<"x", " ", "n", ".">>

mxNoPreference == <<" ", "n", ".">>

\* a hostname without the final dot, and an empty one
mxNoDot == <<"1", " ", "n">>

mxNoHostname == <<"1", " ">>

\* a preference and nothing else: no space, no hostname part
mxBare == <<"1", "0">>

\* the same with a preference above 65535
mxBareTooLarge == <<"6", "6", "0", "0", "0">>

\* the empty string
mxEmpty == <<>>

MXEntries ==
    {mxGood, NullMX, mxNegative, mxTooLarge, mxOverflow, mxNoNumber, mxNoPreference,
     mxNoDot, mxNoHostname, mxBare, mxBareTooLarge, mxEmpty}

MXLists == UNION {[1..n -> MXEntries] : n \in 1..MaxMXLen}

MXSetMX ==
    /\ ncalls = 0
    /\ \E fqdn \in {fA, fCBA}, ttl \in {0, 300}, rdatas \in MXLists :
        \E r \in {SetMX(db, fqdn, ttl, rdatas)} :
            /\ db' = r.db
            /\ err' = r.err
            /\ ret' = <<>>
            /\ call' = [op |-> "SetMX", fqdn |-> fqdn, ttl |-> ttl, rdata |-> rdatas]
    /\ ncalls' = ncalls + 1
    /\ UNCHANGED run

NextMX == MXSetMX

SpecMX == Init /\ [][NextMX]_vars

(* ---- C37 --------------------------------------------------------------- *)

\* e is "preference hostname": a number from 0 to 65535, one space, a valid
\* hostname
WellFormedMX(e) ==
    \E k \in 1..Len(e) :
        /\ e[k] = " "
        /\ \A j \in 1..(k - 1) : e[j] \in DigitChars
        /\ k > 1
        /\ Len(TrimLeft(SubSeq(e, 1, k - 1), "0")) <= 5
        /\ DigitsValue(SubSeq(e, 1, k - 1), 0) <= MaxPreference
        /\ regexHostname(SubSeq(e, k + 1, Len(e)))

\* the rdata list has a malformed entry and is not the null MX alone
MalformedMXs(rdatas) ==
    /\ rdatas # <<NullMX>>
    /\ \E i \in 1..Len(rdatas) : ~WellFormedMX(rdatas[i])

InvalidRdataErrors ==
    {"rdata: invalid preference", "rdata: invalid FQDN", "rdata: duplicate entry"}

\* C37: SetMX with a malformed rdata entry, the null MX "0 ." alone apart,
\* returns an error of the rdata and stores nothing, also for an entry that
\* is a preference with no space and no hostname.
C37_MalformedMXRejected ==
    (call.op = "SetMX" /\ MalformedMXs(call.rdata)) =>
        /\ err \in InvalidRdataErrors
        /\ \A i \in 1..Len(db) : TypesAt(db[i]) = {}

\* every entry of the rdata list has a space
AllSpaced(rdatas) ==
    \A i \in 1..Len(rdatas) : \E k \in 1..Len(rdatas[i]) : rdatas[i][k] = " "

\* the part of C37 that holds: the malformed entries with a space
C37_SpacedMalformedMXRejected ==
    (call.op = "SetMX" /\ MalformedMXs(call.rdata) /\ AllSpaced(call.rdata)) =>
        /\ err \in InvalidRdataErrors
        /\ \A i \in 1..Len(db) : TypesAt(db[i]) = {}

\* SetMX has refused a preference above 65535 behind a well-formed entry
C37_SpacedWitness ==
    /\ call.op = "SetMX"
    /\ call.rdata = <<mxGood, mxTooLarge>>
    /\ err = "rdata: invalid preference"

\* SetMX has ended the program at an entry without a hostname part
C37_Panic ==
    /\ call.op = "SetMX"
    /\ call.rdata = <<mxBare>>
    /\ err = "panic: index out of range"

(* ---- rrpush and the answers of Cloud DNS --------------------------------- *)

\* These runs have, with the fields of the runs above: version, the source
\* file of the command ("part_003" polls at most PollLimit times,
\* "cmd/rrpush" has no such limit); chg, the *Change of the last answer;
\* pollCount, the Changes.Get requests made for the zone the loop is at; the
\* counters of the summary; exitOK; and exit, the way the program has ended:
\* "running", "ok" (main returns), "fatal" (log.Fatal) or "panic".

\* chg after a request that failed: Do returns a nil *Change with the error
NilChange == [nil |-> TRUE]

\* for chg.Status == "pending" && pollCount < 30
PollLimit == 30

\* the Changes.Get requests for one zone after which the runs of cmd/rrpush,
\* which has no limit of its own, are cut off
MaxPolls == 31

PollVersions == {"part_003", "cmd/rrpush"}

\* what Cloud DNS answers to Changes.Create and to Changes.Get
PollAnswers == {"failed", "pending", "done"}

startRrpush(version, dryRun, delay, zones, remote) ==
    startRun("rrpush", dryRun, delay, zones, remote) @@
    [version |-> version, chg |-> NilChange, pollCount |-> 0,
     totalMissingInDatabase |-> 0, totalMissingOnCloudDNS |-> 0, totalFailed |-> 0,
     exitOK |-> TRUE, exit |-> "running"]

\* the loop body down to the log of the change, with the counters
rrpushLookup(r, outcome) ==
    IF r.zones[r.i] \notin r.remote
    THEN continue([r EXCEPT !.totalMissingOnCloudDNS = @ + 1, !.exitOK = FALSE])
    ELSE IF outcome = "no records"
    THEN continue([r EXCEPT !.totalMissingInDatabase = @ + 1, !.exitOK = FALSE])
    ELSE IF outcome = "list failed"
    THEN continue([r EXCEPT !.totalFailed = @ + 1, !.exitOK = FALSE])
    ELSE IF outcome = "nothing to change" THEN continue(r)
    ELSE [r EXCEPT !.pc = "delay", !.shown = r.now]

\* uploading change: Changes.Create and its error; pollCount := 0
rrpushRequest(r, answer) ==
    IF answer = "failed"
    THEN continue([r EXCEPT !.requests = Append(@, Request("Changes.Create", r)),
                            !.totalFailed = @ + 1])
    ELSE [r EXCEPT !.requests = Append(@, Request("Changes.Create", r)),
                   !.chg = [Status |-> answer], !.pollCount = 0, !.pc = "poll"]

\* the loop "for chg.Status == "pending" ...": its condition, and then one
\* turn of its body or the rest of the zone's turn.  The continue after a
\* failed Changes.Get is that of this loop, so its condition is next, and
\* chg.Status of a nil chg is a nil pointer dereference.
rrpushPoll(r, answer) ==
    IF r.chg = NilChange THEN [r EXCEPT !.pc = "panic", !.exit = "panic"]
    ELSE IF r.chg.Status = "pending" /\ (r.version = "part_003" => r.pollCount < PollLimit)
    THEN IF answer = "failed"
         THEN [r EXCEPT !.pollCount = @ + 1, !.chg = NilChange, !.totalFailed = @ + 1]
         ELSE [r EXCEPT !.pollCount = @ + 1, !.chg = [Status |-> answer]]
    ELSE continue(r)

\* the summary and the end of main
rrpushSummary(r) ==
    [r EXCEPT !.pc = "exited", !.exit = IF ~r.exitOK THEN "fatal" ELSE "ok"]

PollStart ==
    /\ run = NoRun
    /\ \E version \in PollVersions, dryRun \in BOOLEAN, delay \in PushDelays,
          zones \in PushZoneLists, remote \in SUBSET PushZoneNames :
        run' = startRrpush(version, dryRun, delay, zones, remote)
    /\ UNCHANGED <<db, call, err, ret, ncalls>>

PollRrpushLookup ==
    /\ run.tool = "rrpush" /\ run.pc = "zone"
    /\ \E outcome \in PushOutcomes : run' = rrpushLookup(run, outcome)
    /\ UNCHANGED <<db, call, err, ret, ncalls>>

PollRrpushDelay ==
    /\ run.tool = "rrpush" /\ run.pc = "delay"
    /\ run' = rrpushDelay(run)
    /\ UNCHANGED <<db, call, err, ret, ncalls>>

PollRrpushDryRun ==
    /\ run.tool = "rrpush" /\ run.pc = "dry-run"
    /\ run' = rrpushDryRun(run)
    /\ UNCHANGED <<db, call, err, ret, ncalls>>

PollRrpushRequest ==
    /\ run.tool = "rrpush" /\ run.pc = "create"
    /\ \E answer \in PollAnswers : run' = rrpushRequest(run, answer)
    /\ UNCHANGED <<db, call, err, ret, ncalls>>

PollRrpushPoll ==
    /\ run.tool = "rrpush" /\ run.pc = "poll"
    /\ IF run.chg = NilChange THEN TRUE
       ELSE IF run.chg.Status = "pending" THEN run.pollCount < MaxPolls ELSE TRUE
    /\ \E answer \in PollAnswers : run' = rrpushPoll(run, answer)
    /\ UNCHANGED <<db, call, err, ret, ncalls>>

PollRrpushSummary ==
    /\ run.tool = "rrpush" /\ run.pc = "done"
    /\ run' = rrpushSummary(run)
    /\ UNCHANGED <<db, call, err, ret, ncalls>>

NextPoll ==
    \/ PollStart
    \/ PollRrpushLookup \/ PollRrpushDelay \/ PollRrpushDryRun
    \/ PollRrpushRequest \/ PollRrpushPoll
    \/ PollRrpushSummary

SpecPoll == Init /\ [][NextPoll]_vars

(* ---- C38 --------------------------------------------------------------- *)

\* C38: the program does not crash while it waits for a change; it makes at
\* most 30 Changes.Get requests for a zone; and once a Changes.Get has
\* failed the waiting is over.
C38_WaitEnds ==
    run.tool = "rrpush" =>
        /\ run.exit # "panic"
        /\ run.pollCount <= PollLimit
        /\ run.pc = "poll" => run.chg # NilChange

\* the part of C38 that holds: part_003 makes at most 30 Changes.Get requests
\* for a zone, and while none fails it goes on to the next zone
C38_LimitedPolls ==
    (run.tool = "rrpush" /\ run.version = "part_003") =>
        /\ run.pollCount <= PollLimit
        /\ (run.exit = "panic" \/ (run.pc = "poll" /\ run.chg = NilChange))
           => run.totalFailed > 0

\* part_003 has given up a change that was pending after 30 requests and
\* has ended
C38_LimitWitness ==
    /\ run.tool = "rrpush" /\ run.version = "part_003"
    /\ run.pollCount = PollLimit
    /\ run.chg = [Status |-> "pending"]
    /\ run.exit = "ok"

\* the program has crashed after a Changes.Get that failed
C38_Panic ==
    /\ run.tool = "rrpush"
    /\ run.exit = "panic"
    /\ run.totalFailed = 1

\* cmd/rrpush has made more than 30 Changes.Get requests for a zone
C38_NoLimit ==
    /\ run.tool = "rrpush" /\ run.version = "cmd/rrpush"
    /\ run.pollCount > PollLimit

(* ---- C39 --------------------------------------------------------------- *)

\* the zones the summary counts as not OK
NotOK(r) == r.totalFailed + r.totalMissingInDatabase + r.totalMissingOnCloudDNS

\* C39: rrpush ends with success exactly when no managed zone was counted as
\* failed, as missing in the local database or as missing on Cloud DNS.
C39_ExitStatusTellsFailures ==
    (run.tool = "rrpush" /\ run.exit # "running") =>
        (run.exit = "ok" <=> NotOK(run) = 0)

\* the part of C39 that holds: a zone missing in the local database or on
\* Cloud DNS, or whose listing failed, makes rrpush end with a failure
C39_LookupFailuresTold ==
    (run.tool = "rrpush" /\ run.exit # "running") =>
        /\ run.exit = "ok" => run.totalMissingInDatabase + run.totalMissingOnCloudDNS = 0
        /\ NotOK(run) = 0 => run.exit = "ok"
        /\ run.exit = "ok" => run.totalFailed <= Len(run.requests)

\* rrpush has ended with a failure with one zone of each kind of lookup error
C39_FatalWitness ==
    /\ run.tool = "rrpush"
    /\ run.exit = "fatal"
    /\ run.totalMissingOnCloudDNS = 1
    /\ run.totalMissingInDatabase + run.totalFailed = 1
    /\ run.requests = <<>>

\* rrpush has ended with success after the Changes.Create of a zone failed
C39_FailedButOK ==
    /\ run.tool = "rrpush"
    /\ run.exit = "ok"
    /\ run.totalFailed = 1

====
